---- MODULE Spec2Model ----
(***************************************************************************)
(* The nRF5x TWIM (I2C master) driver of cpu/nrf5x_common_pip/periph/      *)
(* i2c_nrf52_nrf9160.c: the four transfer operations, the wait-and-classify *)
(* routine finish, the interrupt handler, and the TWIM peripheral they      *)
(* drive through Pip_in/Pip_out.                                            *)
(*                                                                         *)
(* One calling thread per bus (the caller discipline of i2c_acquire /       *)
(* i2c_release): thread t uses bus t.  Every Pip_out / Pip_in group that    *)
(* the hardware can observe separately is a step of its own.                *)
(***************************************************************************)
EXTENDS Integers, Sequences, FiniteSets, TLC

(***************************************************************************)
(* Bounds of the model                                                     *)
(***************************************************************************)
\* number of transfer calls a thread makes
MaxCalls == 2

(***************************************************************************)
(* Program constants                                                       *)
(***************************************************************************)
\* locks[] / busy[] are sized for "a maximum of two devices": the driver
\* serves up to two buses (the dwm1001 board file configures one of them)
I2C_NUMOF == 2
\* static uint8_t tx_buf[256]
TX_BUF_SIZE == 256

Buses == 0 .. (I2C_NUMOF - 1)
Threads == Buses
Byte == 0 .. 255

\* the flag bits of periph/i2c.h, as a set of names
I2C_FLAGS == {"I2C_ADDR10", "I2C_REG16", "I2C_NOSTOP", "I2C_NOSTART"}

\* return values
OK == "0"
EOPNOTSUPP == "-EOPNOTSUPP"
ENXIO == "-ENXIO"
EIO == "-EIO"
NoRet == "none"

\* owner of an unlocked buffer_lock
FREE == -1

\* the inputs the callers draw from
Ops == {"i2c_write_bytes", "i2c_write_regs", "i2c_read_bytes", "i2c_read_regs"}
\* 7-bit device address used by thread t
Addrs == {80}
\* register selectors: 0x1234; and more values with equal, zero and full bytes
Reg1 == {4660}
Regs == {4660, 255, 43605}
\* payload lengths: a transfer of one byte, and one with a byte before the last
Lens == {1, 2}
\* flag arguments: every combination
FlagSets == SUBSET I2C_FLAGS
\* flag arguments the write operations accept
WriteFlagSets == SUBSET {"I2C_REG16", "I2C_NOSTOP"}
StopFlagSets == SUBSET {"I2C_NOSTOP"}
RegFlagSets == SUBSET {"I2C_REG16"}
\* byte i (from 0) of the buffer that thread t passes as data
UserData(t, i) == (160 + 16 * t + i) % 256
\* what a read of memory that holds no caller data may return (a DMA read of
\* a local that is no longer live, a memcpy from address 0)
Garbage == {0, 238}

VARIABLES
    pc,           \* pc[t]: position of thread t in the driver
    call,         \* call[t]: arguments of the current (or last) call of t
    ret,          \* ret[t]: return value of the last call of t
    tx_buf,       \* static uint8_t tx_buf[256]
    buffer_lock,  \* static mutex_t buffer_lock: holder, or FREE
    busy,         \* static mutex_t busy[I2C_NUMOF]: TRUE = locked
    regs,         \* the TWIM registers of each bus
    hw,           \* the TWIM transfer engine of each bus
    tasks,        \* tasks[t]: the TWIM tasks the current call of t has triggered
    locks,        \* static mutex_t locks[I2C_NUMOF]: who locked it, or FREE
    shared,       \* the lock of the shared peripheral of each bus: holder, or FREE
    pins,         \* pins[d]: are the pins of bus d attached to the peripheral
    ncalls        \* ncalls[t]: number of calls thread t has made

vars == <<pc, call, ret, tx_buf, buffer_lock, busy, regs, hw, tasks, locks, shared, pins,
          ncalls>>

NoCall == [op |-> "none", dev |-> 0, addr |-> 0, reg |-> 0, len |-> 0, flags |-> {},
           ram |-> TRUE, null |-> FALSE]

IdleHw == [st |-> "idle", n |-> 0, ptr |-> "none", cnt |-> 0, rcnt |-> 0,
           stop |-> FALSE, rx |-> FALSE,
           \* the record of the transaction in progress (or of the last one): the
           \* arguments of the call that triggered its start task, what went over
           \* the wire, the events it posted, the bytes acknowledged / received
           by |-> NoCall, wire |-> << >>, posted |-> {}, txd |-> 0, rxd |-> 0]

\* i2c_config[dev]: the pins and the speed of the bus descriptor (the board
\* has one descriptor; the second one stands for a second bus)
i2c_config(d) == [scl |-> 28 - (2 * d), sda |-> 29 - (2 * d), speed |-> "I2C_SPEED_NORMAL"]

\* spi_config[1]: the SPI role of the same peripheral writes its clock pin, its
\* data pin and its speed into the registers the two roles share
SpiConfig == [sclk |-> 16, mosi |-> 20, speed |-> "SPI_SPEED"]

InitRegs == [ADDRESS |-> 0, TXD_PTR |-> "none", TXD_MAXCNT |-> 0, TXD_AMOUNT |-> 0,
             RXD_PTR |-> "none", RXD_MAXCNT |-> 0,
             SHORTS |-> {}, INTEN |-> {},
             EVENTS_STOPPED |-> FALSE, EVENTS_ERROR |-> FALSE,
             EVENTS_LASTTX |-> FALSE,
             ERRORSRC |-> {},
             ENABLE |-> FALSE, PSEL_SCL |-> "disconnected", PSEL_SDA |-> "disconnected",
             FREQUENCY |-> "reset"]

\* _setup_shared_peripheral: PSEL.SCL, PSEL.SDA and FREQUENCY from the descriptor
SetupSharedPeripheral(r, d) ==
    [r EXCEPT !.PSEL_SCL = i2c_config(d).scl, !.PSEL_SDA = i2c_config(d).sda,
              !.FREQUENCY = i2c_config(d).speed]

\* the state after i2c_init(dev) of every bus: busy[dev] initialised and locked
Init ==
    /\ pc = [t \in Threads |-> "idle"]
    /\ call = [t \in Threads |-> NoCall]
    /\ ret = [t \in Threads |-> NoRet]
    /\ tx_buf = [i \in 0 .. (TX_BUF_SIZE - 1) |-> 0]
    /\ buffer_lock = FREE
    /\ busy = [d \in Buses |-> TRUE]
    /\ regs = [d \in Buses |-> [SetupSharedPeripheral(InitRegs, d) EXCEPT !.ENABLE = TRUE]]
    /\ hw = [d \in Buses |-> IdleHw]
    /\ tasks = [t \in Threads |-> << >>]
    /\ locks = [d \in Buses |-> FREE]
    /\ shared = [d \in Buses |-> FREE]
    /\ pins = [d \in Buses |-> TRUE]
    /\ ncalls = [t \in Threads |-> 0]


(***************************************************************************)
(* Pure parts of the driver                                                *)
(***************************************************************************)
\* i2c_write_regs: if (flags & (I2C_NOSTART | I2C_ADDR10))
WriteRegsRejects(flags) == flags \cap {"I2C_NOSTART", "I2C_ADDR10"} # {}

\* faulty variant: the 10-bit-address flag is not tested
ReadBytesRejects_NoAddr10(flags) == flags \cap {"I2C_NOSTART", "I2C_NOSTOP"} # {}

\* i2c_read_bytes: if (flags & (I2C_NOSTART | I2C_ADDR10 | I2C_NOSTOP))
ReadBytesRejects(flags) == flags \cap {"I2C_NOSTART", "I2C_ADDR10", "I2C_NOSTOP"} # {}

\* faulty variant: the suppress-stop flag is not tested
ReadRegsRejects_NoNoStop(flags) == flags \cap {"I2C_NOSTART", "I2C_ADDR10"} # {}

\* i2c_read_regs: if (flags & (I2C_NOSTART | I2C_ADDR10 | I2C_NOSTOP))
ReadRegsRejects(flags) == flags \cap {"I2C_NOSTART", "I2C_ADDR10", "I2C_NOSTOP"} # {}

\* direct_i2c_write_bytes: if (flags & (I2C_NOSTART | I2C_ADDR10))
DirectWriteRejects(flags) == flags \cap {"I2C_NOSTART", "I2C_ADDR10"} # {}

\* i2c_write_regs: reg_addr_len
RegAddrLen(flags) == IF "I2C_REG16" \in flags THEN 2 ELSE 1

\* faulty variant: the 16-bit selector is staged low byte first
StageRegs_LowByteFirst(buf, t, reg, len, flags) ==
    [i \in DOMAIN buf |->
        IF "I2C_REG16" \in flags /\ i = 0 THEN reg % 256
        ELSE IF "I2C_REG16" \in flags /\ i = 1 THEN (reg \div 256) % 256
        ELSE IF "I2C_REG16" \notin flags /\ i = 0 THEN reg % 256
        ELSE IF i >= RegAddrLen(flags) /\ i < RegAddrLen(flags) + len
             THEN UserData(t, i - RegAddrLen(flags))
        ELSE buf[i]]

\* i2c_write_regs: tx_buf after the selector and the memcpy of the payload
\* (tx_buf[0] = reg >> 8 and tx_buf[0] = reg are stores to a uint8_t)
StageRegs(buf, t, reg, len, flags) ==
    [i \in DOMAIN buf |->
        IF "I2C_REG16" \in flags /\ i = 0 THEN (reg \div 256) % 256
        ELSE IF "I2C_REG16" \in flags /\ i = 1 THEN reg % 256
        ELSE IF "I2C_REG16" \notin flags /\ i = 0 THEN reg % 256
        ELSE IF i >= RegAddrLen(flags) /\ i < RegAddrLen(flags) + len
             THEN UserData(t, i - RegAddrLen(flags))
        ELSE buf[i]]

\* i2c_write_bytes: tx_buf after memcpy(tx_buf, data, len)
StageBytes(buf, t, len) ==
    [i \in DOMAIN buf |-> IF i < len THEN UserData(t, i) ELSE buf[i]]

\* byteorder.h htons on the little-endian core: swaps the two bytes
htons(x) == ((x % 256) * 256) + ((x \div 256) % 256)

\* i2c_read_regs: the local reg after "if (flags & I2C_REG16) reg = htons(reg)"
RegLocal(c) == IF "I2C_REG16" \in c.flags THEN htons(c.reg) ELSE c.reg

\* byte i of a uint16_t in (little-endian) memory
RegMem(x, i) == IF i = 0 THEN x % 256 ELSE (x \div 256) % 256

\* i2c_write_bytes / i2c_write_regs: does the call go through tx_buf
Staged(c) ==
    \/ c.op = "i2c_write_regs"
    \/ c.op = "i2c_write_bytes" /\ ~c.ram

\* faulty variant: the selector is not counted in the length
DirectLen_PayloadOnly(c) == c.len

\* faulty variant: the hardware always reads from tx_buf
DirectPtr_TxBuf(c) == "tx_buf"

\* the data and len arguments that reach direct_i2c_write_bytes
DirectPtr(c) == IF Staged(c) THEN "tx_buf" ELSE "data"
DirectLen(c) == IF c.op = "i2c_write_regs" THEN RegAddrLen(c.flags) + c.len ELSE c.len

\* direct_i2c_write_bytes: the SHORTS value and inten_success_flag
WriteShorts(flags) == IF "I2C_NOSTOP" \notin flags THEN {"LASTTX_STOP"} ELSE {}
WriteSuccessFlag(flags) == IF "I2C_NOSTOP" \notin flags THEN "STOPPED" ELSE "LASTTX"

\* inten_success_flag passed to finish by the operation of call c
IntenSuccess(c) ==
    IF c.op \in {"i2c_write_bytes", "i2c_write_regs"}
    THEN WriteSuccessFlag(c.flags) ELSE "STOPPED"

\* faulty variant: a staged write returns without unlocking buffer_lock
AfterReturn_NoUnlock(c) == "idle"

\* where a thread goes when direct_i2c_write_bytes / finish returns
AfterReturn(c) == IF Staged(c) THEN "unlock" ELSE "idle"

\* the function that called direct_i2c_write_bytes / finish returns r: a staged
\* write still has to unlock buffer_lock, any other call is over (its arguments
\* and locals are gone)
Return(t, r) ==
    /\ ret' = [ret EXCEPT ![t] = r]
    /\ pc' = [pc EXCEPT ![t] = AfterReturn(call[t])]
    /\ call' = IF Staged(call[t]) THEN call ELSE [call EXCEPT ![t] = NoCall]

\* faulty variant: i2c_write_regs accepts the lengths the other operations accept
WriteRegsAssert_Len256(c) == c.dev < I2C_NUMOF /\ ~c.null /\ c.len > 0 /\ c.len < 256

\* i2c_write_regs: assert((dev < I2C_NUMOF) && data && (len > 0) && (len < 253))
WriteRegsAssert(c) == c.dev < I2C_NUMOF /\ ~c.null /\ c.len > 0 /\ c.len < 253

\* i2c_read_bytes: assert((dev < I2C_NUMOF) && data && (len > 0) && (len < 256))
ReadBytesAssert(c) == c.dev < I2C_NUMOF /\ ~c.null /\ c.len > 0 /\ c.len < 256

\* i2c_read_regs: assert((dev < I2C_NUMOF) && data && (len > 0) && (len < 256))
ReadRegsAssert(c) == c.dev < I2C_NUMOF /\ ~c.null /\ c.len > 0 /\ c.len < 256

\* i2c_write_bytes, data outside RAM: assert((len > 0) && (len < 256))
WriteBytesAssert(c) == c.len > 0 /\ c.len < 256

\* direct_i2c_write_bytes: assert((dev < I2C_NUMOF) && data && (len > 0) && (len < 256))
\* on the arguments it is called with: data is tx_buf for a staged write
DirectAssert(c) ==
    /\ c.dev < I2C_NUMOF
    /\ Staged(c) \/ ~c.null
    /\ DirectLen(c) > 0 /\ DirectLen(c) < 256

(***************************************************************************)
(* The four transfer operations.  A failed assert ends in core_panic: the   *)
(* thread stays at "assert_failed".  FS, LS, RG, RS, DV and NL are the sets  *)
(* the flags, len, reg, data-in-RAM, dev and data-is-NULL arguments are      *)
(* drawn from.                                                               *)
(***************************************************************************)
\* i2c_write_regs is called
i2c_write_regs(t, FS, LS, RG, DV, NL) ==
    /\ pc[t] = "idle"
    /\ ncalls[t] < MaxCalls
    /\ ncalls' = [ncalls EXCEPT ![t] = @ + 1]
    /\ \E a \in Addrs, r \in RG, n \in LS, f \in FS, d \in DV, nl \in NL :
        LET c == [op |-> "i2c_write_regs", dev |-> d, addr |-> a, reg |-> r,
                  len |-> n, flags |-> f, ram |-> TRUE, null |-> nl]
        IN  /\ call' = [call EXCEPT ![t] = c]
            /\ pc' = [pc EXCEPT ![t] =
                        IF WriteRegsAssert(c) THEN "wr_check" ELSE "assert_failed"]
    /\ ret' = [ret EXCEPT ![t] = NoRet]
    /\ tasks' = [tasks EXCEPT ![t] = << >>]
    /\ UNCHANGED <<locks, shared, pins, tx_buf, buffer_lock, busy, regs, hw>>

\* i2c_write_regs: the flag check
WriteRegsCheck(t) ==
    /\ pc[t] = "wr_check"
    /\ IF WriteRegsRejects(call[t].flags)
       THEN Return(t, EOPNOTSUPP)
       ELSE /\ pc' = [pc EXCEPT ![t] = "wr_lock"]
            /\ UNCHANGED <<call, ret>>
    /\ UNCHANGED <<locks, shared, pins, tasks, ncalls, tx_buf, buffer_lock, busy, regs, hw>>

\* i2c_write_regs: mutex_lock(&buffer_lock)
WriteRegsLock(t) ==
    /\ pc[t] = "wr_lock"
    /\ buffer_lock = FREE
    /\ buffer_lock' = t
    /\ pc' = [pc EXCEPT ![t] = "wr_stage"]
    /\ UNCHANGED <<locks, shared, pins, tasks, ncalls, call, ret, tx_buf, busy, regs, hw>>

\* i2c_write_regs: selector and payload into tx_buf, then direct_i2c_write_bytes
WriteRegsStage(t) ==
    /\ pc[t] = "wr_stage"
    /\ tx_buf' = StageRegs(tx_buf, t, call[t].reg, call[t].len, call[t].flags)
    /\ pc' = [pc EXCEPT ![t] = "dw_check"]
    /\ UNCHANGED <<locks, shared, pins, tasks, ncalls, call, ret, buffer_lock, busy, regs, hw>>

\* i2c_write_bytes: the RAM range test; data in RAM goes straight to
\* direct_i2c_write_bytes, any other data pointer (NULL is address 0, which is
\* not in RAM) to the assert on len and then to the staged path
i2c_write_bytes(t, FS, LS, RS, DV, NL) ==
    /\ pc[t] = "idle"
    /\ ncalls[t] < MaxCalls
    /\ ncalls' = [ncalls EXCEPT ![t] = @ + 1]
    /\ \E a \in Addrs, n \in LS, f \in FS, inram \in RS, d \in DV, nl \in NL :
        LET c == [op |-> "i2c_write_bytes", dev |-> d, addr |-> a, reg |-> 0,
                  len |-> n, flags |-> f, ram |-> inram, null |-> nl]
        IN  /\ nl => ~inram
            /\ call' = [call EXCEPT ![t] = c]
            /\ pc' = [pc EXCEPT ![t] =
                        IF inram THEN "dw_check"
                        ELSE IF WriteBytesAssert(c) THEN "wb_lock" ELSE "assert_failed"]
    /\ ret' = [ret EXCEPT ![t] = NoRet]
    /\ tasks' = [tasks EXCEPT ![t] = << >>]
    /\ UNCHANGED <<locks, shared, pins, tx_buf, buffer_lock, busy, regs, hw>>

\* i2c_write_bytes: mutex_lock(&buffer_lock)
WriteBytesLock(t) ==
    /\ pc[t] = "wb_lock"
    /\ buffer_lock = FREE
    /\ buffer_lock' = t
    /\ pc' = [pc EXCEPT ![t] = "wb_stage"]
    /\ UNCHANGED <<locks, shared, pins, tasks, ncalls, call, ret, tx_buf, busy, regs, hw>>

\* i2c_write_bytes: memcpy(tx_buf, data, len), then direct_i2c_write_bytes
WriteBytesStage(t) ==
    /\ pc[t] = "wb_stage"
    /\ IF call[t].null
       THEN \E g \in Garbage :
               tx_buf' = [i \in DOMAIN tx_buf |-> IF i < call[t].len THEN g ELSE tx_buf[i]]
       ELSE tx_buf' = StageBytes(tx_buf, t, call[t].len)
    /\ pc' = [pc EXCEPT ![t] = "dw_check"]
    /\ UNCHANGED <<locks, shared, pins, tasks, ncalls, call, ret, buffer_lock, busy, regs, hw>>

\* direct_i2c_write_bytes: the assert, then the flag check
DirectCheck(t) ==
    /\ pc[t] = "dw_check"
    /\ IF ~DirectAssert(call[t])
       THEN /\ pc' = [pc EXCEPT ![t] = "assert_failed"]
            /\ UNCHANGED <<call, ret>>
       ELSE IF DirectWriteRejects(call[t].flags)
       THEN Return(t, EOPNOTSUPP)
       ELSE /\ pc' = [pc EXCEPT ![t] = "dw_prog"]
            /\ UNCHANGED <<call, ret>>
    /\ UNCHANGED <<locks, shared, pins, tasks, ncalls, tx_buf, buffer_lock, busy, regs, hw>>

\* faulty variant: SHORTS is left as the previous transfer programmed it
DirectProg_NoShorts(t) ==
    /\ pc[t] = "dw_prog"
    /\ regs' = [regs EXCEPT ![t].ADDRESS = call[t].addr,
                            ![t].TXD_PTR = DirectPtr(call[t]),
                            ![t].TXD_MAXCNT = DirectLen(call[t]) % 256]
    /\ pc' = [pc EXCEPT ![t] = "dw_start"]
    /\ UNCHANGED <<locks, shared, pins, tasks, ncalls, call, ret, tx_buf, buffer_lock, busy, hw>>

\* direct_i2c_write_bytes: ADDRESS, TXD.PTR, TXD.MAXCNT = (uint8_t)len, SHORTS
DirectProg(t) ==
    /\ pc[t] = "dw_prog"
    /\ regs' = [regs EXCEPT ![t].ADDRESS = call[t].addr,
                            ![t].TXD_PTR = DirectPtr(call[t]),
                            ![t].TXD_MAXCNT = DirectLen(call[t]) % 256,
                            ![t].SHORTS = WriteShorts(call[t].flags)]
    /\ pc' = [pc EXCEPT ![t] = "dw_start"]
    /\ UNCHANGED <<locks, shared, pins, tasks, ncalls, call, ret, tx_buf, buffer_lock, busy, hw>>

\* TASKS_STARTTX = 1: the engine (re)starts with the address phase of a write
StartTx(d) ==
    [IdleHw EXCEPT !.st = "addr_tx", !.ptr = regs[d].TXD_PTR, !.cnt = regs[d].TXD_MAXCNT,
                   !.by = call[d]]

\* TASKS_STARTRX = 1: the engine (re)starts with the address phase of a read
StartRx(d) ==
    [IdleHw EXCEPT !.st = "addr_rx", !.rcnt = regs[d].RXD_MAXCNT, !.by = call[d]]

\* direct_i2c_write_bytes: TASKS_STARTTX = 1, then finish
DirectStart(t) ==
    /\ pc[t] = "dw_start"
    /\ hw' = [hw EXCEPT ![t] = StartTx(t)]
    /\ tasks' = [tasks EXCEPT ![t] = Append(@, "STARTTX")]
    /\ pc' = [pc EXCEPT ![t] = "fin_unmask"]
    /\ UNCHANGED <<locks, shared, pins, ncalls, call, ret, tx_buf, buffer_lock, busy, regs>>

\* i2c_read_bytes is called
i2c_read_bytes(t, FS, LS, DV, NL) ==
    /\ pc[t] = "idle"
    /\ ncalls[t] < MaxCalls
    /\ ncalls' = [ncalls EXCEPT ![t] = @ + 1]
    /\ \E a \in Addrs, n \in LS, f \in FS, d \in DV, nl \in NL :
        LET c == [op |-> "i2c_read_bytes", dev |-> d, addr |-> a, reg |-> 0,
                  len |-> n, flags |-> f, ram |-> TRUE, null |-> nl]
        IN  /\ call' = [call EXCEPT ![t] = c]
            /\ pc' = [pc EXCEPT ![t] =
                        IF ReadBytesAssert(c) THEN "rb_check" ELSE "assert_failed"]
    /\ ret' = [ret EXCEPT ![t] = NoRet]
    /\ tasks' = [tasks EXCEPT ![t] = << >>]
    /\ UNCHANGED <<locks, shared, pins, tx_buf, buffer_lock, busy, regs, hw>>

\* i2c_read_bytes: the flag check
ReadBytesCheck(t) ==
    /\ pc[t] = "rb_check"
    /\ IF ReadBytesRejects(call[t].flags)
       THEN Return(t, EOPNOTSUPP)
       ELSE /\ pc' = [pc EXCEPT ![t] = "rb_prog"]
            /\ UNCHANGED <<call, ret>>
    /\ UNCHANGED <<locks, shared, pins, tasks, ncalls, tx_buf, buffer_lock, busy, regs, hw>>

\* i2c_read_bytes: ADDRESS, RXD.PTR, RXD.MAXCNT = (uint8_t)len, SHORTS
ReadBytesProg(t) ==
    /\ pc[t] = "rb_prog"
    /\ regs' = [regs EXCEPT ![t].ADDRESS = call[t].addr,
                            ![t].RXD_PTR = "data",
                            ![t].RXD_MAXCNT = call[t].len % 256,
                            ![t].SHORTS = {"LASTRX_STOP"}]
    /\ pc' = [pc EXCEPT ![t] = "rb_start"]
    /\ UNCHANGED <<locks, shared, pins, tasks, ncalls, call, ret, tx_buf, buffer_lock, busy, hw>>

\* i2c_read_bytes: TASKS_STARTRX = 1, then finish
ReadBytesStart(t) ==
    /\ pc[t] = "rb_start"
    /\ hw' = [hw EXCEPT ![t] = StartRx(t)]
    /\ tasks' = [tasks EXCEPT ![t] = Append(@, "STARTRX")]
    /\ pc' = [pc EXCEPT ![t] = "fin_unmask"]
    /\ UNCHANGED <<locks, shared, pins, ncalls, call, ret, tx_buf, buffer_lock, busy, regs>>

\* i2c_read_regs is called
i2c_read_regs(t, FS, LS, RG, DV, NL) ==
    /\ pc[t] = "idle"
    /\ ncalls[t] < MaxCalls
    /\ ncalls' = [ncalls EXCEPT ![t] = @ + 1]
    /\ \E a \in Addrs, r \in RG, n \in LS, f \in FS, d \in DV, nl \in NL :
        LET c == [op |-> "i2c_read_regs", dev |-> d, addr |-> a, reg |-> r,
                  len |-> n, flags |-> f, ram |-> TRUE, null |-> nl]
        IN  /\ call' = [call EXCEPT ![t] = c]
            /\ pc' = [pc EXCEPT ![t] =
                        IF ReadRegsAssert(c) THEN "rr_check" ELSE "assert_failed"]
    /\ ret' = [ret EXCEPT ![t] = NoRet]
    /\ tasks' = [tasks EXCEPT ![t] = << >>]
    /\ UNCHANGED <<locks, shared, pins, tx_buf, buffer_lock, busy, regs, hw>>

\* i2c_read_regs: the flag check
ReadRegsCheck(t) ==
    /\ pc[t] = "rr_check"
    /\ IF ReadRegsRejects(call[t].flags)
       THEN Return(t, EOPNOTSUPP)
       ELSE /\ pc' = [pc EXCEPT ![t] = "rr_prog"]
            /\ UNCHANGED <<call, ret>>
    /\ UNCHANGED <<locks, shared, pins, tasks, ncalls, tx_buf, buffer_lock, busy, regs, hw>>

\* faulty variant: the LASTTX->STARTRX shortcut is not armed
ReadRegsProg_NoStartRx(t) ==
    /\ pc[t] = "rr_prog"
    /\ regs' = [regs EXCEPT ![t].ADDRESS = call[t].addr,
                            ![t].TXD_MAXCNT = IF "I2C_REG16" \in call[t].flags THEN 2 ELSE 1,
                            ![t].TXD_PTR = "reg",
                            ![t].RXD_PTR = "data",
                            ![t].RXD_MAXCNT = call[t].len % 256,
                            ![t].SHORTS = {"LASTRX_STOP"}]
    /\ pc' = [pc EXCEPT ![t] = "rr_start"]
    /\ UNCHANGED <<locks, shared, pins, tasks, ncalls, call, ret, tx_buf, buffer_lock, busy, hw>>

\* i2c_read_regs: ADDRESS, TXD.MAXCNT, TXD.PTR = &reg, RXD.PTR, RXD.MAXCNT, SHORTS
ReadRegsProg(t) ==
    /\ pc[t] = "rr_prog"
    /\ regs' = [regs EXCEPT ![t].ADDRESS = call[t].addr,
                            ![t].TXD_MAXCNT = IF "I2C_REG16" \in call[t].flags THEN 2 ELSE 1,
                            ![t].TXD_PTR = "reg",
                            ![t].RXD_PTR = "data",
                            ![t].RXD_MAXCNT = call[t].len % 256,
                            ![t].SHORTS = {"LASTTX_STARTRX", "LASTRX_STOP"}]
    /\ pc' = [pc EXCEPT ![t] = "rr_start"]
    /\ UNCHANGED <<locks, shared, pins, tasks, ncalls, call, ret, tx_buf, buffer_lock, busy, hw>>

\* i2c_read_regs: TASKS_STARTTX = 1, then finish
ReadRegsStart(t) ==
    /\ pc[t] = "rr_start"
    /\ hw' = [hw EXCEPT ![t] = StartTx(t)]
    /\ tasks' = [tasks EXCEPT ![t] = Append(@, "STARTTX")]
    /\ pc' = [pc EXCEPT ![t] = "fin_unmask"]
    /\ UNCHANGED <<locks, shared, pins, ncalls, call, ret, tx_buf, buffer_lock, busy, regs>>

\* i2c_write_regs / i2c_write_bytes: mutex_unlock(&buffer_lock); return
Unlock(t) ==
    /\ pc[t] = "unlock"
    /\ buffer_lock' = FREE
    /\ pc' = [pc EXCEPT ![t] = "idle"]
    /\ call' = [call EXCEPT ![t] = NoCall]
    /\ UNCHANGED <<locks, shared, pins, tasks, ncalls, ret, tx_buf, busy, regs, hw>>


(***************************************************************************)
(* finish: wait for the interrupt and classify                              *)
(***************************************************************************)
\* faulty variant: only the error source is unmasked
FinishInten_ErrorOnly(flag) == {"ERROR"}

\* finish: INTENSET = inten_success_flag | TWIM_INTEN_ERROR_Msk
FinishInten(flag) == {flag, "ERROR"}

\* finish: the loop condition of the LASTTX poll is false (the register read
\* through the index TXD_MAXAMOUNT is the transmitted-byte count TXD.AMOUNT)
PollDone(r) == ~(r.TXD_AMOUNT # r.TXD_MAXCNT /\ ~r.EVENTS_ERROR)

FinUnmask(t) ==
    /\ pc[t] = "fin_unmask"
    /\ regs' = [regs EXCEPT ![t].INTEN = @ \cup FinishInten(IntenSuccess(call[t]))]
    /\ pc' = [pc EXCEPT ![t] = "fin_wait"]
    /\ UNCHANGED <<locks, shared, pins, tasks, ncalls, call, ret, tx_buf, buffer_lock, busy, hw>>

\* finish: mutex_lock(&busy[dev]) blocks until the handler has unlocked it
FinWait(t) ==
    /\ pc[t] = "fin_wait"
    /\ ~busy[t]
    /\ busy' = [busy EXCEPT ![t] = TRUE]
    /\ pc' = [pc EXCEPT ![t] = "fin_stopped"]
    /\ UNCHANGED <<locks, shared, pins, tasks, ncalls, call, ret, tx_buf, buffer_lock, regs, hw>>

\* finish: if (EVENTS_STOPPED) EVENTS_STOPPED = 0
FinStopped(t) ==
    /\ pc[t] = "fin_stopped"
    /\ regs' = [regs EXCEPT ![t].EVENTS_STOPPED = FALSE]
    /\ pc' = [pc EXCEPT ![t] =
                IF IntenSuccess(call[t]) = "LASTTX" THEN "fin_poll" ELSE "fin_error"]
    /\ UNCHANGED <<locks, shared, pins, tasks, ncalls, call, ret, tx_buf, buffer_lock, busy, hw>>

\* finish: while (TXD.AMOUNT != TXD.MAXCNT && !EVENTS_ERROR) {}
FinPoll(t) ==
    /\ pc[t] = "fin_poll"
    /\ PollDone(regs[t])
    /\ pc' = [pc EXCEPT ![t] = "fin_error"]
    /\ UNCHANGED <<locks, shared, pins, tasks, ncalls, call, ret, tx_buf, buffer_lock, busy, regs, hw>>

\* finish: if (EVENTS_ERROR) { EVENTS_ERROR = 0; ... } return 0
FinError(t) ==
    /\ pc[t] = "fin_error"
    /\ IF regs[t].EVENTS_ERROR
       THEN /\ regs' = [regs EXCEPT ![t].EVENTS_ERROR = FALSE]
            /\ pc' = [pc EXCEPT ![t] = "fin_anack"]
            /\ UNCHANGED <<call, ret>>
       ELSE /\ regs' = regs
            /\ Return(t, OK)
    /\ UNCHANGED <<locks, shared, pins, tasks, ncalls, tx_buf, buffer_lock, busy, hw>>

\* faulty variant: the address-NACK bit is reported only when it is the only bit set
FinAnack_DnackFirst(t) ==
    /\ pc[t] = "fin_anack"
    /\ IF regs[t].ERRORSRC = {"ANACK"}
       THEN /\ regs' = [regs EXCEPT ![t].ERRORSRC = @ \ {"ANACK"}]
            /\ Return(t, ENXIO)
       ELSE /\ regs' = regs
            /\ pc' = [pc EXCEPT ![t] = "fin_dnack"]
            /\ UNCHANGED <<call, ret>>
    /\ UNCHANGED <<locks, shared, pins, tasks, ncalls, tx_buf, buffer_lock, busy, hw>>

\* finish: if (ERRORSRC & ANACK) { ERRORSRC = ANACK; return -ENXIO; }
FinAnack(t) ==
    /\ pc[t] = "fin_anack"
    /\ IF "ANACK" \in regs[t].ERRORSRC
       THEN /\ regs' = [regs EXCEPT ![t].ERRORSRC = @ \ {"ANACK"}]
            /\ Return(t, ENXIO)
       ELSE /\ regs' = regs
            /\ pc' = [pc EXCEPT ![t] = "fin_dnack"]
            /\ UNCHANGED <<call, ret>>
    /\ UNCHANGED <<locks, shared, pins, tasks, ncalls, tx_buf, buffer_lock, busy, hw>>

\* faulty variant: the data-NACK bit is reported without being cleared
FinDnack_NoClear(t) ==
    /\ pc[t] = "fin_dnack"
    /\ regs' = regs
    /\ Return(t, IF "DNACK" \in regs[t].ERRORSRC THEN EIO ELSE OK)
    /\ UNCHANGED <<locks, shared, pins, tasks, ncalls, tx_buf, buffer_lock, busy, hw>>

\* finish: if (ERRORSRC & DNACK) { ERRORSRC = DNACK; return -EIO; } ... return 0
FinDnack(t) ==
    /\ pc[t] = "fin_dnack"
    /\ IF "DNACK" \in regs[t].ERRORSRC
       THEN /\ regs' = [regs EXCEPT ![t].ERRORSRC = @ \ {"DNACK"}]
            /\ Return(t, EIO)
       ELSE /\ regs' = regs
            /\ Return(t, OK)
    /\ UNCHANGED <<locks, shared, pins, tasks, ncalls, tx_buf, buffer_lock, busy, hw>>

(***************************************************************************)
(* The interrupt handler                                                    *)
(***************************************************************************)
\* faulty variant: the handler leaves the last-byte-transmitted source unmasked
IsrMask_NoLastTx == {"STOPPED", "ERROR"}

\* the sources i2c_isr_handler masks with INTENCLR
IsrMask == {"STOPPED", "ERROR", "LASTTX"}

\* the interrupt line of bus d: an unmasked source whose event is latched
IrqPending(d) ==
    \/ "STOPPED" \in regs[d].INTEN /\ regs[d].EVENTS_STOPPED
    \/ "ERROR" \in regs[d].INTEN /\ regs[d].EVENTS_ERROR
    \/ "LASTTX" \in regs[d].INTEN /\ regs[d].EVENTS_LASTTX

\* faulty variant: the handler unlocks busy[dev] without masking the sources
i2c_isr_handler_NoMask(d) ==
    /\ IrqPending(d)
    /\ busy' = [busy EXCEPT ![d] = FALSE]
    /\ UNCHANGED <<locks, shared, pins, tasks, ncalls, pc, call, ret, tx_buf, buffer_lock, hw, regs>>

\* i2c_isr_handler(arg), dev = arg: INTENCLR, then mutex_unlock(&busy[dev]); it
\* runs in interrupt context, when an unmasked event of the bus is latched
i2c_isr_handler(d) ==
    /\ IrqPending(d)
    /\ regs' = [regs EXCEPT ![d].INTEN = @ \ IsrMask]
    /\ busy' = [busy EXCEPT ![d] = FALSE]
    /\ UNCHANGED <<locks, shared, pins, tasks, ncalls, pc, call, ret, tx_buf, buffer_lock, hw>>


(***************************************************************************)
(* The TWIM peripheral.  Events latch until software writes 0; ERRORSRC     *)
(* bits latch until software writes 1 to them.  TXD.PTR and TXD.MAXCNT are  *)
(* taken when the start task is triggered; the bytes are fetched from       *)
(* memory as they are sent.  LASTTX / LASTRX are posted when the last byte  *)
(* starts (see the comments in finish and in the file header), the          *)
(* shortcuts of SHORTS act on these events, TXD.AMOUNT is written when the  *)
(* transmission ends and keeps its value until then.  The addressed device  *)
(* may acknowledge or not.                                                  *)
(***************************************************************************)
\* the byte the DMA engine of bus d fetches at offset i of ptr; the local reg
\* of i2c_read_regs is live only while thread d is inside that call
MemByte(d, ptr, i) ==
    IF ptr = "tx_buf" THEN {tx_buf[i]}
    ELSE IF ptr = "data" THEN {UserData(d, i)}
    ELSE IF ptr = "reg" /\ call[d].op = "i2c_read_regs" /\ pc[d] # "idle"
         THEN {RegMem(RegLocal(call[d]), i)}
    ELSE Garbage

\* the engine comes to rest: only the record of the transaction is kept
Halt(h) == [h EXCEPT !.st = "idle", !.n = 0, !.ptr = "none", !.cnt = 0, !.rcnt = 0,
                     !.stop = FALSE, !.rx = FALSE]

\* the registers after the error event with source bit src is posted
PostError(r, src) == [r EXCEPT !.EVENTS_ERROR = TRUE, !.ERRORSRC = @ \cup {src}]

\* address phase of a write
HwAddrTx(d) ==
    /\ hw[d].st = "addr_tx"
    /\ \E ack \in BOOLEAN :
        IF ack
        THEN /\ hw' = [hw EXCEPT ![d].st = "tx", ![d].n = 0,
                                 ![d].wire = Append(@, <<"SW", regs[d].ADDRESS>>)]
             /\ regs' = regs
        ELSE /\ hw' = [hw EXCEPT ![d] =
                            [Halt(@) EXCEPT !.wire = Append(@, <<"SW", regs[d].ADDRESS>>),
                                            !.posted = @ \cup {"ERROR"}]]
             /\ regs' = [regs EXCEPT ![d] = [PostError(@, "ANACK") EXCEPT !.TXD_AMOUNT = 0]]
    /\ UNCHANGED <<locks, shared, pins, tasks, ncalls, pc, call, ret, tx_buf, buffer_lock, busy>>

\* a data byte of a write that is not the last one
HwTxByte(d) ==
    /\ hw[d].st = "tx"
    /\ hw[d].n + 1 < hw[d].cnt
    /\ \E b \in MemByte(d, hw[d].ptr, hw[d].n), ack \in BOOLEAN :
        IF ack
        THEN /\ hw' = [hw EXCEPT ![d].n = @ + 1, ![d].txd = @ + 1,
                                 ![d].wire = Append(@, <<"W", b>>)]
             /\ regs' = regs
        ELSE /\ hw' = [hw EXCEPT ![d] =
                            [Halt(@) EXCEPT !.wire = Append(@, <<"W", b>>),
                                            !.posted = @ \cup {"ERROR"}]]
             /\ regs' = [regs EXCEPT ![d] =
                            [PostError(@, "DNACK") EXCEPT !.TXD_AMOUNT = hw[d].n + 1]]
    /\ UNCHANGED <<locks, shared, pins, tasks, ncalls, pc, call, ret, tx_buf, buffer_lock, busy>>

\* the last byte of a write starts: LASTTX is posted and the shortcuts act
HwLastTx(d) ==
    /\ hw[d].st = "tx"
    /\ hw[d].n + 1 >= hw[d].cnt
    /\ hw' = [hw EXCEPT ![d].st = "tx_last",
                        ![d].stop = "LASTTX_STOP" \in regs[d].SHORTS,
                        ![d].rx = "LASTTX_STARTRX" \in regs[d].SHORTS,
                        ![d].posted = @ \cup {"LASTTX"}]
    /\ regs' = [regs EXCEPT ![d].EVENTS_LASTTX = TRUE]
    /\ UNCHANGED <<locks, shared, pins, tasks, ncalls, pc, call, ret, tx_buf, buffer_lock, busy>>

\* the last byte of a write is on the wire; after a NACK the engine may or may
\* not go on to a receive requested by the LASTTX->STARTRX shortcut
HwTxLast(d) ==
    /\ hw[d].st = "tx_last"
    /\ \E b \in MemByte(d, hw[d].ptr, hw[d].n), ack \in BOOLEAN, goon \in BOOLEAN :
        /\ ack => goon
        /\ (goon /\ ~ack) => (hw[d].rx /\ ~hw[d].stop)
        /\ hw' = [hw EXCEPT ![d] =
                    [(IF hw[d].stop THEN [@ EXCEPT !.st = "stopping"]
                      ELSE IF hw[d].rx /\ goon
                           THEN [@ EXCEPT !.st = "addr_rx", !.n = 0, !.rx = FALSE,
                                          !.rcnt = regs[d].RXD_MAXCNT]
                      ELSE Halt(@))
                        EXCEPT !.txd = IF ack THEN @ + 1 ELSE @,
                               !.wire = Append(@, <<"W", b>>),
                               !.posted = IF ack THEN @ ELSE @ \cup {"ERROR"}]]
        /\ regs' = [regs EXCEPT ![d] =
                       [(IF ack THEN @ ELSE PostError(@, "DNACK"))
                           EXCEPT !.TXD_AMOUNT = hw[d].cnt]]
    /\ UNCHANGED <<locks, shared, pins, tasks, ncalls, pc, call, ret, tx_buf, buffer_lock, busy>>

\* address phase of a read
HwAddrRx(d) ==
    /\ hw[d].st = "addr_rx"
    /\ \E ack \in BOOLEAN :
        IF ack
        THEN /\ hw' = [hw EXCEPT ![d].st = "rx", ![d].n = 0,
                                 ![d].wire = Append(@, <<"SR", regs[d].ADDRESS>>)]
             /\ regs' = regs
        ELSE /\ hw' = [hw EXCEPT ![d] =
                            [Halt(@) EXCEPT !.wire = Append(@, <<"SR", regs[d].ADDRESS>>),
                                            !.posted = @ \cup {"ERROR"}]]
             /\ regs' = [regs EXCEPT ![d] = PostError(@, "ANACK")]
    /\ UNCHANGED <<locks, shared, pins, tasks, ncalls, pc, call, ret, tx_buf, buffer_lock, busy>>

\* a received byte that is not the last one
HwRxByte(d) ==
    /\ hw[d].st = "rx"
    /\ hw[d].n + 1 < hw[d].rcnt
    /\ hw' = [hw EXCEPT ![d].n = @ + 1, ![d].rxd = @ + 1,
                        ![d].wire = Append(@, <<"R", 0>>)]
    /\ UNCHANGED <<locks, shared, pins, tasks, ncalls, pc, call, ret, tx_buf, buffer_lock, busy, regs>>

\* the last byte of a read starts: LASTRX is posted and the shortcut acts
HwLastRx(d) ==
    /\ hw[d].st = "rx"
    /\ hw[d].n + 1 >= hw[d].rcnt
    /\ hw' = [hw EXCEPT ![d].st = "rx_last",
                        ![d].stop = "LASTRX_STOP" \in regs[d].SHORTS,
                        ![d].posted = @ \cup {"LASTRX"}]
    /\ UNCHANGED <<locks, shared, pins, tasks, ncalls, pc, call, ret, tx_buf, buffer_lock, busy, regs>>

\* the last byte of a read is in memory
HwRxLast(d) ==
    /\ hw[d].st = "rx_last"
    /\ hw' = [hw EXCEPT ![d] =
                [(IF hw[d].stop THEN [@ EXCEPT !.st = "stopping"] ELSE Halt(@))
                    EXCEPT !.rxd = @ + 1, !.wire = Append(@, <<"R", 0>>)]]
    /\ UNCHANGED <<locks, shared, pins, tasks, ncalls, pc, call, ret, tx_buf, buffer_lock, busy, regs>>

\* the stop condition is on the wire: STOPPED is posted
HwStop(d) ==
    /\ hw[d].st = "stopping"
    /\ hw' = [hw EXCEPT ![d] =
                [Halt(@) EXCEPT !.wire = Append(@, <<"P", 0>>),
                                !.posted = @ \cup {"STOPPED"}]]
    /\ regs' = [regs EXCEPT ![d].EVENTS_STOPPED = TRUE]
    /\ UNCHANGED <<locks, shared, pins, tasks, ncalls, pc, call, ret, tx_buf, buffer_lock, busy>>

(***************************************************************************)
(* i2c_init(dev), executed at start-up by the thread that will use the bus  *)
(***************************************************************************)
\* the state before i2c_init(0): busy[0] is not initialised, the peripheral is
\* in whatever state the boot code left it, the pins are not configured
Boot ==
    /\ pc = [t \in Threads |-> IF t = 0 THEN "boot" ELSE "idle"]
    /\ call = [t \in Threads |-> NoCall]
    /\ ret = [t \in Threads |-> NoRet]
    /\ tx_buf = [i \in 0 .. (TX_BUF_SIZE - 1) |-> 0]
    /\ buffer_lock = FREE
    /\ \E b \in BOOLEAN : busy = [d \in Buses |-> IF d = 0 THEN b ELSE TRUE]
    /\ \E e \in BOOLEAN :
          regs = [d \in Buses |->
                    IF d = 0 THEN [InitRegs EXCEPT !.ENABLE = e]
                    ELSE [SetupSharedPeripheral(InitRegs, d) EXCEPT !.ENABLE = TRUE]]
    /\ hw = [d \in Buses |-> IdleHw]
    /\ tasks = [t \in Threads |-> << >>]
    /\ locks = [d \in Buses |-> FREE]
    /\ shared = [d \in Buses |-> FREE]
    /\ pins = [d \in Buses |-> d # 0]
    /\ ncalls = [t \in Threads |-> 0]

\* faulty variant: busy[dev] is initialised but not locked
i2c_init_NoLock(d) ==
    /\ pc[d] = "boot"
    /\ busy' = [busy EXCEPT ![d] = FALSE]
    /\ pc' = [pc EXCEPT ![d] = "init_disable"]
    /\ UNCHANGED <<locks, shared, pins, tasks, ncalls, call, ret, tx_buf, buffer_lock, regs, hw>>

\* i2c_init is called: mutex_init(&busy[dev]); mutex_lock(&busy[dev])
i2c_init(d) ==
    /\ pc[d] = "boot"
    /\ busy' = [busy EXCEPT ![d] = TRUE]
    /\ pc' = [pc EXCEPT ![d] = "init_disable"]
    /\ UNCHANGED <<locks, shared, pins, tasks, ncalls, call, ret, tx_buf, buffer_lock, regs, hw>>

\* i2c_init: ENABLE = Disabled
InitDisable(d) ==
    /\ pc[d] = "init_disable"
    /\ regs' = [regs EXCEPT ![d].ENABLE = FALSE]
    /\ pc' = [pc EXCEPT ![d] = "init_pins"]
    /\ UNCHANGED <<locks, shared, pins, tasks, ncalls, call, ret, tx_buf, buffer_lock, busy, hw>>

\* i2c_init: _init_pins(dev)
InitPins(d) ==
    /\ pc[d] = "init_pins"
    /\ pins' = [pins EXCEPT ![d] = TRUE]
    /\ pc' = [pc EXCEPT ![d] = "init_setup"]
    /\ UNCHANGED <<locks, shared, tasks, ncalls, call, ret, tx_buf, buffer_lock, busy, regs, hw>>

\* i2c_init: _setup_shared_peripheral(dev), then the handler is registered
InitSetup(d) ==
    /\ pc[d] = "init_setup"
    /\ regs' = [regs EXCEPT ![d] = SetupSharedPeripheral(@, d)]
    /\ pc' = [pc EXCEPT ![d] = "init_enable"]
    /\ UNCHANGED <<locks, shared, pins, tasks, ncalls, call, ret, tx_buf, buffer_lock, busy, hw>>

\* i2c_init: ENABLE = Enabled; return
InitEnable(d) ==
    /\ pc[d] = "init_enable"
    /\ regs' = [regs EXCEPT ![d].ENABLE = TRUE]
    /\ pc' = [pc EXCEPT ![d] = "idle"]
    /\ UNCHANGED <<locks, shared, pins, tasks, ncalls, call, ret, tx_buf, buffer_lock, busy, hw>>

InitSteps(d) == InitDisable(d) \/ InitPins(d) \/ InitSetup(d) \/ InitEnable(d)

(***************************************************************************)
(* The life cycle of a bus: i2c_acquire / i2c_release, and i2c_deinit_pins  *)
(* / i2c_init_pins of MODULE_PERIPH_I2C_RECONFIGURE.  Thread t acts on bus  *)
(* d; rc tells whether the module is compiled in.  The callers keep the     *)
(* documented discipline: release follows the caller's own acquire,        *)
(* i2c_init_pins the caller's own i2c_deinit_pins.                          *)
(***************************************************************************)
LifeCall(op, d) == [NoCall EXCEPT !.op = op, !.dev = d]

\* thread t has the bus d: its i2c_acquire has returned, its i2c_release has
\* not been called
HoldsBus(t, d) ==
    /\ shared[d] = t
    /\ pc[t] \notin {"acq_setup", "acq_enable", "rel_unlock", "rel_shared"}

\* i2c_acquire is called
i2c_acquire(t, d, rc) ==
    /\ pc[t] = "idle"
    /\ shared[d] # t /\ locks[d] # t
    /\ call' = [call EXCEPT ![t] = LifeCall("i2c_acquire", d)]
    /\ pc' = [pc EXCEPT ![t] = IF rc THEN "acq_lock" ELSE "acq_shared"]
    /\ UNCHANGED <<locks, shared, pins, tasks, ncalls, ret, tx_buf, buffer_lock, busy, regs, hw>>

\* i2c_acquire: mutex_lock(&locks[dev])
AcquireLock(t) ==
    /\ pc[t] = "acq_lock"
    /\ locks[call[t].dev] = FREE
    /\ locks' = [locks EXCEPT ![call[t].dev] = t]
    /\ pc' = [pc EXCEPT ![t] = "acq_shared"]
    /\ UNCHANGED <<shared, pins, tasks, ncalls, call, ret, tx_buf, buffer_lock, busy, regs, hw>>

\* i2c_acquire: nrf5x_i2c_acquire takes the lock of the shared peripheral
AcquireShared(t) ==
    /\ pc[t] = "acq_shared"
    /\ shared[call[t].dev] = FREE
    /\ shared' = [shared EXCEPT ![call[t].dev] = t]
    /\ pc' = [pc EXCEPT ![t] = "acq_setup"]
    /\ UNCHANGED <<locks, pins, tasks, ncalls, call, ret, tx_buf, buffer_lock, busy, regs, hw>>

\* faulty variant: the shared registers are left as the other role wrote them
AcquireSetup_Skip(t) ==
    /\ pc[t] = "acq_setup"
    /\ pc' = [pc EXCEPT ![t] = "acq_enable"]
    /\ UNCHANGED <<locks, shared, pins, tasks, ncalls, call, ret, tx_buf, buffer_lock, busy,
                   regs, hw>>

\* i2c_acquire: _setup_shared_peripheral(dev)
AcquireSetup(t) ==
    /\ pc[t] = "acq_setup"
    /\ regs' = [regs EXCEPT ![call[t].dev] = SetupSharedPeripheral(@, call[t].dev)]
    /\ pc' = [pc EXCEPT ![t] = "acq_enable"]
    /\ UNCHANGED <<locks, shared, pins, tasks, ncalls, call, ret, tx_buf, buffer_lock, busy, hw>>

\* i2c_acquire: ENABLE = Enabled; return
AcquireEnable(t) ==
    /\ pc[t] = "acq_enable"
    /\ regs' = [regs EXCEPT ![call[t].dev].ENABLE = TRUE]
    /\ pc' = [pc EXCEPT ![t] = "idle"]
    /\ call' = [call EXCEPT ![t] = NoCall]
    /\ UNCHANGED <<locks, shared, pins, tasks, ncalls, ret, tx_buf, buffer_lock, busy, hw>>

\* i2c_release is called: ENABLE = Disabled
i2c_release(t, d, rc) ==
    /\ pc[t] = "idle"
    /\ HoldsBus(t, d)
    /\ regs' = [regs EXCEPT ![d].ENABLE = FALSE]
    /\ call' = [call EXCEPT ![t] = LifeCall("i2c_release", d)]
    /\ pc' = [pc EXCEPT ![t] = IF rc THEN "rel_unlock" ELSE "rel_shared"]
    /\ UNCHANGED <<locks, shared, pins, tasks, ncalls, ret, tx_buf, buffer_lock, busy, hw>>

\* i2c_release: mutex_unlock(&locks[dev])
ReleaseUnlock(t) ==
    /\ pc[t] = "rel_unlock"
    /\ locks' = [locks EXCEPT ![call[t].dev] = FREE]
    /\ pc' = [pc EXCEPT ![t] = "rel_shared"]
    /\ UNCHANGED <<shared, pins, tasks, ncalls, call, ret, tx_buf, buffer_lock, busy, regs, hw>>

\* i2c_release: nrf5x_i2c_release gives the shared peripheral back; return
ReleaseShared(t) ==
    /\ pc[t] = "rel_shared"
    /\ shared' = [shared EXCEPT ![call[t].dev] = FREE]
    /\ pc' = [pc EXCEPT ![t] = "idle"]
    /\ call' = [call EXCEPT ![t] = NoCall]
    /\ UNCHANGED <<locks, pins, tasks, ncalls, ret, tx_buf, buffer_lock, busy, regs, hw>>

\* i2c_deinit_pins is called
i2c_deinit_pins(t, d) ==
    /\ pc[t] = "idle"
    /\ shared[d] # t /\ locks[d] # t
    /\ call' = [call EXCEPT ![t] = LifeCall("i2c_deinit_pins", d)]
    /\ pc' = [pc EXCEPT ![t] = "dp_lock"]
    /\ UNCHANGED <<locks, shared, pins, tasks, ncalls, ret, tx_buf, buffer_lock, busy, regs, hw>>

\* faulty variant: the pins are detached without waiting for the guard
DeinitLock_NoWait(t) ==
    /\ pc[t] = "dp_lock"
    /\ locks' = [locks EXCEPT ![call[t].dev] = t]
    /\ pc' = [pc EXCEPT ![t] = "dp_disable"]
    /\ UNCHANGED <<shared, pins, tasks, ncalls, call, ret, tx_buf, buffer_lock, busy, regs, hw>>

\* i2c_deinit_pins: mutex_lock(&locks[dev])
DeinitLock(t) ==
    /\ pc[t] = "dp_lock"
    /\ locks[call[t].dev] = FREE
    /\ locks' = [locks EXCEPT ![call[t].dev] = t]
    /\ pc' = [pc EXCEPT ![t] = "dp_disable"]
    /\ UNCHANGED <<shared, pins, tasks, ncalls, call, ret, tx_buf, buffer_lock, busy, regs, hw>>

\* i2c_deinit_pins: ENABLE = Disabled; return: the caller may now use the pins
\* for something else
DeinitDisable(t) ==
    /\ pc[t] = "dp_disable"
    /\ regs' = [regs EXCEPT ![call[t].dev].ENABLE = FALSE]
    /\ pins' = [pins EXCEPT ![call[t].dev] = FALSE]
    /\ pc' = [pc EXCEPT ![t] = "idle"]
    /\ call' = [call EXCEPT ![t] = NoCall]
    /\ UNCHANGED <<locks, shared, tasks, ncalls, ret, tx_buf, buffer_lock, busy, hw>>

\* i2c_init_pins is called: _init_pins(dev)
i2c_init_pins(t, d) ==
    /\ pc[t] = "idle"
    /\ locks[d] = t /\ ~pins[d]
    /\ pins' = [pins EXCEPT ![d] = TRUE]
    /\ call' = [call EXCEPT ![t] = LifeCall("i2c_init_pins", d)]
    /\ pc' = [pc EXCEPT ![t] = "ip_enable"]
    /\ UNCHANGED <<locks, shared, tasks, ncalls, ret, tx_buf, buffer_lock, busy, regs, hw>>

\* i2c_init_pins: ENABLE = Enabled
InitPinsEnable(t) ==
    /\ pc[t] = "ip_enable"
    /\ regs' = [regs EXCEPT ![call[t].dev].ENABLE = TRUE]
    /\ pc' = [pc EXCEPT ![t] = "ip_unlock"]
    /\ UNCHANGED <<locks, shared, pins, tasks, ncalls, call, ret, tx_buf, buffer_lock, busy, hw>>

\* i2c_init_pins: mutex_unlock(&locks[dev]); return
InitPinsUnlock(t) ==
    /\ pc[t] = "ip_unlock"
    /\ locks' = [locks EXCEPT ![call[t].dev] = FREE]
    /\ pc' = [pc EXCEPT ![t] = "idle"]
    /\ call' = [call EXCEPT ![t] = NoCall]
    /\ UNCHANGED <<shared, pins, tasks, ncalls, ret, tx_buf, buffer_lock, busy, regs, hw>>

\* the holder of the shared peripheral when it is not a thread of the I2C side
SPI == -2

\* the SPI role of the shared peripheral takes it, writes its own pins and
\* speed into the shared registers and enables the peripheral in its role
SpiAcquire(d) ==
    /\ shared[d] = FREE
    /\ shared' = [shared EXCEPT ![d] = SPI]
    /\ regs' = [regs EXCEPT ![d].PSEL_SCL = SpiConfig.sclk, ![d].PSEL_SDA = SpiConfig.mosi,
                            ![d].FREQUENCY = SpiConfig.speed, ![d].ENABLE = TRUE]
    /\ UNCHANGED <<locks, pins, tasks, ncalls, pc, call, ret, tx_buf, buffer_lock, busy, hw>>

\* the SPI role disables the peripheral and gives it back
SpiRelease(d) ==
    /\ shared[d] = SPI
    /\ shared' = [shared EXCEPT ![d] = FREE]
    /\ regs' = [regs EXCEPT ![d].ENABLE = FALSE]
    /\ UNCHANGED <<locks, pins, tasks, ncalls, pc, call, ret, tx_buf, buffer_lock, busy, hw>>

AcquireSteps(t) == AcquireLock(t) \/ AcquireShared(t) \/ AcquireSetup(t) \/ AcquireEnable(t)
ReleaseSteps(t) == ReleaseUnlock(t) \/ ReleaseShared(t)
PinsSteps(t) == DeinitLock(t) \/ DeinitDisable(t) \/ InitPinsEnable(t) \/ InitPinsUnlock(t)

(***************************************************************************)
(* Specifications                                                          *)
(***************************************************************************)
Finish(t) ==
    \/ FinUnmask(t) \/ FinWait(t) \/ FinStopped(t) \/ FinPoll(t)
    \/ FinError(t) \/ FinAnack(t) \/ FinDnack(t)

Hardware(d) ==
    \/ HwAddrTx(d) \/ HwTxByte(d) \/ HwLastTx(d) \/ HwTxLast(d)
    \/ HwAddrRx(d) \/ HwRxByte(d) \/ HwLastRx(d) \/ HwRxLast(d) \/ HwStop(d)

\* the steps of thread t inside the driver, after the call was made
WriteRegsSteps(t) == WriteRegsCheck(t) \/ WriteRegsLock(t) \/ WriteRegsStage(t)

WriteBytesSteps(t) == WriteBytesLock(t) \/ WriteBytesStage(t)

DirectSteps(t) == DirectCheck(t) \/ DirectProg(t) \/ DirectStart(t)

ReadBytesSteps(t) == ReadBytesCheck(t) \/ ReadBytesProg(t) \/ ReadBytesStart(t)

ReadRegsSteps(t) == ReadRegsCheck(t) \/ ReadRegsProg(t) \/ ReadRegsStart(t)

Driver(t) ==
    \/ WriteRegsSteps(t) \/ WriteBytesSteps(t) \/ DirectSteps(t)
    \/ ReadBytesSteps(t) \/ ReadRegsSteps(t)
    \/ Unlock(t)
    \/ Finish(t)

\* one caller, on bus 0, whose calls pass the flag checks: every operation,
\* with and without I2C_NOSTOP and I2C_REG16 where the operation reads them
Next ==
    \/ i2c_write_regs(0, WriteFlagSets, Lens, Reg1, {0}, {FALSE})
    \/ i2c_write_bytes(0, StopFlagSets, Lens, BOOLEAN, {0}, {FALSE})
    \/ i2c_read_bytes(0, {{}}, Lens, {0}, {FALSE})
    \/ i2c_read_regs(0, RegFlagSets, Lens, Reg1, {0}, {FALSE})
    \/ Driver(0)
    \/ Hardware(0)
    \/ i2c_isr_handler(0)

Spec == Init /\ [][Next]_vars

\* one caller, on bus 0, using every operation with every flag combination
NextFlags ==
    \/ i2c_write_regs(0, FlagSets, {1}, Reg1, {0}, {FALSE})
    \/ i2c_write_bytes(0, FlagSets, {1}, BOOLEAN, {0}, {FALSE})
    \/ i2c_read_bytes(0, FlagSets, {2}, {0}, {FALSE})
    \/ i2c_read_regs(0, FlagSets, {1}, Reg1, {0}, {FALSE})
    \/ Driver(0)
    \/ Hardware(0)
    \/ i2c_isr_handler(0)

SpecFlags == Init /\ [][NextFlags]_vars

\* one caller, on bus 0, using the two register operations with several
\* register values
NextRegs ==
    \/ i2c_write_regs(0, WriteFlagSets, {1}, Regs, {0}, {FALSE})
    \/ i2c_read_regs(0, RegFlagSets, {2}, Regs, {0}, {FALSE})
    \/ WriteRegsSteps(0) \/ DirectSteps(0) \/ ReadRegsSteps(0)
    \/ Unlock(0)
    \/ Finish(0)
    \/ Hardware(0)
    \/ i2c_isr_handler(0)

SpecRegs == Init /\ [][NextRegs]_vars


\* the transmit half of the peripheral
HardwareTx(d) == HwAddrTx(d) \/ HwTxByte(d) \/ HwLastTx(d) \/ HwTxLast(d) \/ HwStop(d)

\* two callers on different buses whose writes both go through tx_buf:
\* thread 0 writes from a buffer outside RAM on bus 0, thread 1 writes
\* registers on bus 1
NextConc ==
    \/ i2c_write_bytes(0, StopFlagSets, {1}, {FALSE}, {0}, {FALSE})
    \/ i2c_write_regs(1, {{}}, {1}, Reg1, {1}, {FALSE})
    \/ WriteBytesSteps(0)
    \/ WriteRegsSteps(1)
    \/ \E t \in Threads : DirectSteps(t) \/ Unlock(t) \/ Finish(t)
    \/ \E d \in Buses : HardwareTx(d) \/ i2c_isr_handler(d)

SpecConc == Init /\ [][NextConc]_vars

\* one caller, on bus 0, that calls i2c_write_bytes and then i2c_read_bytes
\* with the same length and address
NextWriteRead ==
    \/ ncalls[0] = 0 /\ i2c_write_bytes(0, StopFlagSets, Lens, BOOLEAN, {0}, {FALSE})
    \/ ncalls[0] = 1 /\ i2c_read_bytes(0, {{}}, {hw[0].by.len}, {0}, {FALSE})
    \/ WriteBytesSteps(0) \/ DirectSteps(0) \/ ReadBytesSteps(0)
    \/ Unlock(0)
    \/ Finish(0)
    \/ Hardware(0)
    \/ i2c_isr_handler(0)

SpecWriteRead == Init /\ [][NextWriteRead]_vars

\* one caller whose calls may break the caller contract: a bus id that is out
\* of range, a NULL data pointer, a length of 0 or one that is too large
NextAssert ==
    \/ i2c_write_regs(0, {{}}, {0, 1, 253}, Reg1, {0, I2C_NUMOF}, BOOLEAN)
    \/ i2c_write_bytes(0, StopFlagSets, {0, 1, 256}, BOOLEAN, {0, I2C_NUMOF}, BOOLEAN)
    \/ i2c_read_bytes(0, {{}}, {0, 2, 256}, {0, I2C_NUMOF}, BOOLEAN)
    \/ i2c_read_regs(0, {{}}, {0, 1, 256}, Reg1, {0, I2C_NUMOF}, BOOLEAN)
    \/ Driver(0)
    \/ Hardware(0)
    \/ i2c_isr_handler(0)

SpecAssert == Init /\ [][NextAssert]_vars

\* one caller, on bus 0, that brackets its transfers with i2c_acquire and
\* i2c_release (MODULE_PERIPH_I2C_RECONFIGURE not compiled in), and the SPI
\* role of the same peripheral, which uses it while the bus is released
NextAcquire ==
    \/ i2c_acquire(0, 0, FALSE)
    \/ i2c_release(0, 0, FALSE)
    \/ AcquireShared(0) \/ AcquireSetup(0) \/ AcquireEnable(0)
    \/ ReleaseShared(0)
    \/ SpiAcquire(0) \/ SpiRelease(0)
    \/ HoldsBus(0, 0) /\ i2c_write_regs(0, {{}}, {1}, Reg1, {0}, {FALSE})
    \/ HoldsBus(0, 0) /\ i2c_write_bytes(0, {{"I2C_NOSTOP"}}, {1}, BOOLEAN, {0}, {FALSE})
    \/ HoldsBus(0, 0) /\ i2c_read_bytes(0, {{}}, {2}, {0}, {FALSE})
    \/ HoldsBus(0, 0) /\ i2c_read_regs(0, {{}}, {1}, Reg1, {0}, {FALSE})
    \/ Driver(0)
    \/ Hardware(0)
    \/ i2c_isr_handler(0)

SpecAcquire == Init /\ [][NextAcquire]_vars

\* two threads and bus 0 with MODULE_PERIPH_I2C_RECONFIGURE: thread 0 acquires
\* the bus, writes and releases it; thread 1 acquires and releases it too, and
\* detaches and re-attaches its pins
NextPins ==
    \/ \E t \in Threads : i2c_acquire(t, 0, TRUE) \/ i2c_release(t, 0, TRUE)
    \/ \E t \in Threads : AcquireSteps(t) \/ ReleaseSteps(t)
    \/ i2c_deinit_pins(1, 0) \/ i2c_init_pins(1, 0)
    \/ PinsSteps(1)
    \/ HoldsBus(0, 0) /\ i2c_write_bytes(0, StopFlagSets, {2}, BOOLEAN, {0}, {FALSE})
    \/ WriteBytesSteps(0) \/ DirectSteps(0) \/ Unlock(0) \/ Finish(0)
    \/ HardwareTx(0)
    \/ i2c_isr_handler(0)

SpecPins == Init /\ [][NextPins]_vars

\* i2c_init(0) from the boot state, then one caller on bus 0 using every
\* operation with every flag combination
NextInit ==
    \/ i2c_init(0)
    \/ InitSteps(0)
    \/ NextFlags

SpecInit == Boot /\ [][NextInit]_vars

\* two threads on two buses: thread 0 uses all four operations, its writes
\* staged or from RAM, with and without I2C_NOSTOP; thread 1 makes staged
\* register writes; MaxCalls bounds the calls of both threads together
CallsLeft == ncalls[0] + ncalls[1] < MaxCalls

NextLive ==
    \/ CallsLeft /\ i2c_write_bytes(0, StopFlagSets, {1}, BOOLEAN, {0}, {FALSE})
    \/ CallsLeft /\ i2c_write_regs(0, {{}}, {1}, Reg1, {0}, {FALSE})
    \/ CallsLeft /\ i2c_read_bytes(0, {{}}, {2}, {0}, {FALSE})
    \/ CallsLeft /\ i2c_read_regs(0, {{}}, {1}, Reg1, {0}, {FALSE})
    \/ CallsLeft /\ i2c_write_regs(1, {{}}, {1}, Reg1, {1}, {FALSE})
    \/ Driver(0)
    \/ WriteRegsSteps(1) \/ DirectSteps(1) \/ Unlock(1) \/ Finish(1)
    \/ Hardware(0) \/ HardwareTx(1)
    \/ \E d \in Buses : i2c_isr_handler(d)

\* a thread inside the driver runs again and again, the engine carries on
\* with a transaction it has started, a pending interrupt is delivered
Fairness ==
    /\ WF_vars(Driver(0))
    /\ WF_vars(WriteRegsSteps(1) \/ DirectSteps(1) \/ Unlock(1) \/ Finish(1))
    /\ WF_vars(Hardware(0)) /\ WF_vars(HardwareTx(1))
    /\ \A d \in Buses : WF_vars(i2c_isr_handler(d))

SpecLive == Init /\ [][NextLive]_vars /\ Fairness

\* the lengths at the edges of what i2c_write_regs accepts, and two it refuses
EdgeLens == {1, 252, 254, 255}

\* the number of calls of the caller that writes the long payloads
MaxLenCalls == 1

\* one caller, on bus 0, writing registers with the shortest and the longest
\* payloads, with and without I2C_REG16 and I2C_NOSTOP
NextLen ==
    \/ ncalls[0] < MaxLenCalls /\ i2c_write_regs(0, WriteFlagSets, EdgeLens, Reg1, {0}, {FALSE})
    \/ WriteRegsSteps(0) \/ DirectSteps(0) \/ Unlock(0) \/ Finish(0)
    \/ HardwareTx(0)
    \/ i2c_isr_handler(0)

SpecLen == Init /\ [][NextLen]_vars

(***************************************************************************)
(* Properties                                                              *)
(***************************************************************************)
\* the flags no operation supports
BadFlags(f) == "I2C_NOSTART" \in f \/ "I2C_ADDR10" \in f

\* thread t is inside a transfer call
InCall(t) == pc[t] # "idle"

\* the positions of a call before any peripheral register is written
BeforeHardware == {"wr_check", "rb_check", "rr_check", "dw_check",
                   "wb_lock", "wb_stage", "unlock"}

\* C1: a call of any of the four operations whose flags contain I2C_NOSTART or
\* I2C_ADDR10 returns -EOPNOTSUPP and writes no peripheral register: it never
\* reaches the register programming, no step of it changes a register or
\* triggers a task, and when it returns the result is -EOPNOTSUPP.
C1_RejectedPositions ==
    \A t \in Threads :
        (InCall(t) /\ BadFlags(call[t].flags)) =>
            /\ pc[t] \in BeforeHardware
            /\ pc[t] = "unlock" => ret[t] = EOPNOTSUPP

C1_RejectedStep ==
    \A t \in Threads :
        (InCall(t) /\ BadFlags(call[t].flags) /\ pc'[t] # pc[t]) =>
            /\ regs' = regs
            /\ hw' = hw
            /\ pc'[t] = "idle" => ret'[t] = EOPNOTSUPP

C1_RejectedFlags == [](C1_RejectedPositions) /\ [][C1_RejectedStep]_vars

\* a staged i2c_write_bytes with I2C_ADDR10 has been rejected after an earlier
\* transfer programmed the registers
C1_Witness ==
    /\ pc[0] = "unlock"
    /\ "I2C_ADDR10" \in call[0].flags
    /\ ret[0] = EOPNOTSUPP
    /\ regs[0].ADDRESS = 80

\* C2 (as claimed): a call rejected for its flags has no side effect at all:
\* it never waits for buffer_lock, and no step of it changes tx_buf,
\* buffer_lock, busy[] or a peripheral register.
C2_RejectedNeverLocks ==
    \A t \in Threads :
        (InCall(t) /\ BadFlags(call[t].flags)) => pc[t] \notin {"wr_lock", "wb_lock"}

C2_RejectedStepFrame ==
    \A t \in Threads :
        (InCall(t) /\ BadFlags(call[t].flags) /\ pc'[t] # pc[t]) =>
            /\ tx_buf' = tx_buf
            /\ buffer_lock' = buffer_lock
            /\ busy' = busy
            /\ regs' = regs

C2_NoSideEffects == [](C2_RejectedNeverLocks) /\ [][C2_RejectedStepFrame]_vars

\* C3 (as claimed): i2c_write_regs, i2c_read_bytes and i2c_read_regs reject
\* I2C_NOSTOP: such a call never gets past its flag check.
C3_NoStopOnlyPlainWrite ==
    \A t \in Threads :
        (/\ call[t].op \in {"i2c_write_regs", "i2c_read_bytes", "i2c_read_regs"}
         /\ "I2C_NOSTOP" \in call[t].flags)
            => pc[t] \in {"wr_check", "rb_check", "rr_check"}

\* C3 (amended): the two read operations reject I2C_NOSTOP with -EOPNOTSUPP
\* and start no transaction; both write operations accept it: an
\* i2c_write_regs call with I2C_NOSTOP (and no unsupported flag) passes its
\* flag check and goes on to stage and transmit.
C3_ReadPositions ==
    \A t \in Threads :
        (call[t].op \in {"i2c_read_bytes", "i2c_read_regs"} /\ "I2C_NOSTOP" \in call[t].flags)
            => pc[t] \in {"rb_check", "rr_check"}

C3_ReadStep ==
    \A t \in Threads :
        (/\ call[t].op \in {"i2c_read_bytes", "i2c_read_regs"}
         /\ "I2C_NOSTOP" \in call[t].flags
         /\ pc'[t] # pc[t])
            => /\ pc'[t] = "idle"
               /\ ret'[t] = EOPNOTSUPP
               /\ regs' = regs
               /\ hw' = hw

C3_WriteRegsStep ==
    \A t \in Threads :
        (/\ pc[t] = "wr_check"
         /\ pc'[t] # pc[t]
         /\ "I2C_NOSTOP" \in call[t].flags
         /\ ~BadFlags(call[t].flags))
            => pc'[t] = "wr_lock"

C3_NoStopOnWritesOnly ==
    [](C3_ReadPositions) /\ [][C3_ReadStep /\ C3_WriteRegsStep]_vars

\* an i2c_write_regs with I2C_NOSTOP has transmitted, and a read with
\* I2C_NOSTOP is at its flag check
C3_Witness ==
    /\ hw[0].by.op = "i2c_write_regs"
    /\ "I2C_NOSTOP" \in hw[0].by.flags
    /\ hw[0].txd > 0
    /\ pc[0] = "rr_check"
    /\ "I2C_NOSTOP" \in call[0].flags

\* thread t takes a step of the driver
Steps(t) == pc'[t] # pc[t]

\* the call of thread t returns r at this step
Returns(t, r) == ret'[t] = r /\ ret[t] # r

\* C4: the result of finish is a function of the status it reads after the
\* wake-up: error event not latched -> 0; latched and address-NACK bit set ->
\* -ENXIO, whether or not the data-NACK bit is set too; latched, address-NACK
\* bit read as clear and data-NACK bit set -> -EIO.  And these are the only
\* ways the three results come about.
C4_Classify ==
    \A t \in Threads :
        /\ (pc[t] = "fin_error" /\ Steps(t)) =>
              IF regs[t].EVENTS_ERROR
              THEN pc'[t] = "fin_anack" /\ ret'[t] = NoRet
              ELSE ret'[t] = OK /\ pc'[t] \in {"idle", "unlock"}
        /\ (pc[t] = "fin_anack" /\ Steps(t)) =>
              IF "ANACK" \in regs[t].ERRORSRC
              THEN ret'[t] = ENXIO /\ pc'[t] \in {"idle", "unlock"}
              ELSE pc'[t] = "fin_dnack" /\ ret'[t] = NoRet
        /\ (pc[t] = "fin_dnack" /\ Steps(t) /\ "DNACK" \in regs[t].ERRORSRC) =>
              ret'[t] = EIO /\ pc'[t] \in {"idle", "unlock"}
        /\ Returns(t, ENXIO) => pc[t] = "fin_anack"
        /\ Returns(t, EIO) => pc[t] = "fin_dnack"
        /\ Returns(t, OK) => pc[t] \in {"fin_error", "fin_dnack"}

C4_FinishResult == [][C4_Classify]_vars

\* a transfer returned -ENXIO with the data-NACK bit set as well
C4_Witness ==
    /\ ret[0] = ENXIO
    /\ pc[0] = "idle"
    /\ "DNACK" \in regs[0].ERRORSRC

\* C5 (as claimed): when a transfer returns -ENXIO or -EIO, the error event
\* and the error-source register show no error, whatever bits were set.
C5_ReturnLeavesNoError ==
    \A t \in Threads :
        (Returns(t, ENXIO) \/ Returns(t, EIO)) =>
            /\ ~regs'[t].EVENTS_ERROR
            /\ regs'[t].ERRORSRC = {}

C5_ClearsAllErrors == [][C5_ReturnLeavesNoError]_vars

\* C5 (amended): finish clears the latched error event when it reads it set,
\* and clears exactly the error-source bit it reports: the address-NACK bit
\* for -ENXIO, the data-NACK bit for -EIO; the other bit stays as it was.
C5_ClearStep ==
    \A t \in Threads :
        /\ (pc[t] = "fin_error" /\ Steps(t)) => ~regs'[t].EVENTS_ERROR
        /\ Returns(t, ENXIO) =>
              /\ "ANACK" \in regs[t].ERRORSRC
              /\ regs'[t].ERRORSRC = regs[t].ERRORSRC \ {"ANACK"}
              /\ regs'[t].EVENTS_ERROR = regs[t].EVENTS_ERROR
        /\ Returns(t, EIO) =>
              /\ "DNACK" \in regs[t].ERRORSRC
              /\ regs'[t].ERRORSRC = regs[t].ERRORSRC \ {"DNACK"}
              /\ regs'[t].EVENTS_ERROR = regs[t].EVENTS_ERROR

C5_ClearsReportedBit == [][C5_ClearStep]_vars

\* a transfer whose data byte was not acknowledged returned -EIO and left no
\* error behind
C5_Witness ==
    /\ ret[0] = EIO
    /\ "ERROR" \in hw[0].posted
    /\ regs[0].ERRORSRC = {}
    /\ ~regs[0].EVENTS_ERROR

\* the bytes a call asks the hardware to send and to receive
TxLen(c) ==
    IF c.op = "i2c_write_bytes" THEN c.len
    ELSE IF c.op = "i2c_write_regs" THEN RegAddrLen(c.flags) + c.len
    ELSE IF c.op = "i2c_read_regs" THEN RegAddrLen(c.flags)
    ELSE 0

RxLen(c) == IF c.op \in {"i2c_read_bytes", "i2c_read_regs"} THEN c.len ELSE 0

\* C6 (as claimed): whenever a transfer has returned 0, the transaction it
\* started has transferred all requested bytes and posted no error.
C6_NoPartialSuccess ==
    \A t \in Threads :
        ret[t] = OK =>
            /\ "ERROR" \notin hw[t].posted
            /\ hw[t].txd = TxLen(hw[t].by)
            /\ hw[t].rxd = RxLen(hw[t].by)

\* the positions of finish after the wait on busy[dev]
AfterWakeup == {"fin_stopped", "fin_poll", "fin_error", "fin_anack", "fin_dnack"}

\* C9 (as claimed): finish is past its wait only when the transaction the
\* call started has posted the awaited success event or an error.
C9_NoStaleWakeup ==
    \A t \in Threads :
        pc[t] \in AfterWakeup =>
            hw[t].posted \cap {IntenSuccess(call[t]), "ERROR"} # {}

\* the selector the claim expects for register value R
Selector(R, flags) ==
    IF "I2C_REG16" \in flags THEN << (R \div 256) % 256, R % 256 >> ELSE << R % 256 >>

\* the data bytes a transaction has put on the wire
IsTxByte(e) == e[1] = "W"
WireBytes(w) == LET s == SelectSeq(w, IsTxByte) IN [i \in 1 .. Len(s) |-> s[i][2]]

\* s and u agree wherever both are defined
Agree(s, u) == \A i \in (DOMAIN s) \cap (DOMAIN u) : s[i] = u[i]

\* the positions from the start task to the wait of finish
Started == {"fin_unmask", "fin_wait"}

\* C10: for every register value R, when i2c_write_regs or i2c_read_regs
\* triggers the start task the hardware has been handed, through TXD.PTR and
\* TXD.MAXCNT, the selector [R>>8, R&0xFF] (I2C_REG16) or [R&0xFF], with a
\* transmit count of 2 or 1 (plus the payload length for a write), and the
\* bytes it sends while the call waits start with that selector.
C10_SelectorEncoding ==
    \A t \in Threads :
        LET c == call[t]
            sel == Selector(c.reg, c.flags)
        IN  /\ (c.op = "i2c_write_regs" /\ pc[t] \in {"dw_start"} \cup Started) =>
                  /\ regs[t].TXD_PTR = "tx_buf"
                  /\ regs[t].TXD_MAXCNT = Len(sel) + c.len
                  /\ \A i \in DOMAIN sel : tx_buf[i - 1] = sel[i]
            /\ (c.op = "i2c_read_regs" /\ pc[t] \in {"rr_start"} \cup Started) =>
                  /\ regs[t].TXD_PTR = "reg"
                  /\ regs[t].TXD_MAXCNT = Len(sel)
                  /\ \A i \in DOMAIN sel : MemByte(t, "reg", i - 1) = {sel[i]}
            /\ (c.op \in {"i2c_write_regs", "i2c_read_regs"} /\ pc[t] \in Started) =>
                  /\ hw[t].by = c
                  /\ Agree(WireBytes(hw[t].wire), sel)

\* both selector bytes of a 16-bit register read of register 0x1234 have gone
\* over the wire, high byte first, while the caller waits
C10_Witness ==
    /\ pc[0] = "fin_wait"
    /\ call[0].op = "i2c_read_regs"
    /\ "I2C_REG16" \in call[0].flags
    /\ call[0].reg = 4660
    /\ WireBytes(hw[0].wire) = << 18, 52 >>

\* the bytes the caller t of call c supplied: selector, then payload
Payload(t, len) == [i \in 1 .. len |-> UserData(t, i - 1)]
Supplied(c, t) ==
    IF c.op = "i2c_write_regs"
    THEN Selector(c.reg, c.flags) \o Payload(t, c.len)
    ELSE Payload(t, c.len)

\* C7 (as claimed): for a staged write that has returned 0, the bytes the
\* hardware has put on the wire for it are bytes its caller supplied, never
\* those of another caller.
C7_NoMixture ==
    \A d \in Buses :
        (Staged(hw[d].by) /\ ret[d] = OK /\ pc[d] = "idle") =>
            Agree(WireBytes(hw[d].wire), Supplied(hw[d].by, d))

\* the positions of a staged write between mutex_lock and mutex_unlock
HoldsBufferLock(t) ==
    /\ Staged(call[t])
    /\ pc[t] \in {"wr_stage", "wb_stage", "dw_check", "dw_prog", "dw_start",
                  "fin_unmask", "fin_wait", "unlock"} \cup AfterWakeup

\* the engine states in which bytes are still to be fetched through TXD.PTR
Transmitting == {"addr_tx", "tx", "tx_last"}

\* C8 (as claimed): at most one thread is between lock and unlock of
\* buffer_lock, and while the engine of a bus still transmits from tx_buf the
\* lock is held by the thread that staged those bytes.
C8_LockCoversTransmission ==
    /\ \A t \in Threads : HoldsBufferLock(t) => buffer_lock = t
    /\ \A d \in Buses :
          (hw[d].st \in Transmitting /\ hw[d].ptr = "tx_buf") => buffer_lock = d


\* s is an initial part of u
IsPrefix(s, u) == Len(s) <= Len(u) /\ \A i \in DOMAIN s : s[i] = u[i]

\* the bus transaction of a write of the bytes b to addr: start with the write
\* address, the bytes, and a stop unless the stop is suppressed
WriteWire(addr, b, flags) ==
    << <<"SW", addr>> >> \o [i \in DOMAIN b |-> <<"W", b[i]>>]
        \o (IF "I2C_NOSTOP" \in flags THEN << >> ELSE << <<"P", 0>> >>)

\* the positions of a write between the staging and the start task
Programming == {"dw_check", "dw_prog", "dw_start"}

\* C11: every accepted i2c_write_regs call has, from the staging on, the
\* selector at offset 0 of tx_buf and the payload right after it; when it
\* triggers the start task ADDRESS is addr, TXD.PTR is tx_buf and TXD.MAXCNT is
\* the selector length plus len; it triggers the start-transmit task once and
\* no other task; and what goes over the wire for it is an initial part of
\* one transaction: start, selector, payload, stop (no stop with I2C_NOSTOP),
\* with nothing between selector and payload.
C11_WriteRegsOneTransaction ==
    \A t \in Threads :
        LET c == call[t]
            sup == Supplied(c, t)
        IN  c.op = "i2c_write_regs" =>
              /\ pc[t] \in Programming \cup Started =>
                    \A i \in DOMAIN sup : tx_buf[i - 1] = sup[i]
              /\ pc[t] \in {"dw_start"} \cup Started =>
                    /\ regs[t].ADDRESS = c.addr
                    /\ regs[t].TXD_PTR = "tx_buf"
                    /\ regs[t].TXD_MAXCNT = RegAddrLen(c.flags) + c.len
              /\ pc[t] \in {"wr_check", "wr_lock", "wr_stage"} \cup Programming =>
                    tasks[t] = << >>
              /\ pc[t] \in Started \cup AfterWakeup \cup {"unlock"} =>
                    /\ tasks[t] = <<"STARTTX">>
                    /\ hw[t].by = c
                    /\ IsPrefix(hw[t].wire, WriteWire(c.addr, sup, c.flags))

\* a 16-bit register write of two bytes has gone over the wire completely,
\* stop included, while its caller waits
C11_Witness ==
    \E t \in Threads :
        /\ call[t].op = "i2c_write_regs" /\ pc[t] = "fin_wait"
        /\ call[t].flags = {"I2C_REG16"} /\ call[t].len = 2
        /\ hw[t].wire = WriteWire(call[t].addr, Supplied(call[t], t), call[t].flags)


\* the bus transaction of a register read: start with the write address, the
\* selector, repeated start with the read address, len bytes read, stop
ReadRegsWire(c) ==
    LET sel == Selector(c.reg, c.flags)
    IN  << <<"SW", c.addr>> >> \o [i \in DOMAIN sel |-> <<"W", sel[i]>>]
          \o << <<"SR", c.addr>> >> \o [i \in 1 .. c.len |-> <<"R", 0>>]
          \o << <<"P", 0>> >>

\* C12: every accepted i2c_read_regs call triggers the start-transmit task
\* once and no other task, has both shortcuts (LASTTX->STARTRX, LASTRX->STOP)
\* armed when it triggers it, and waits with the stop and error sources
\* unmasked; what goes over the wire during the call is an initial part of
\* start, selector, repeated start, len bytes read, stop: the only stop is the
\* last thing on the wire, none stands between the selector and the read.
C12_ReadRegsCombined ==
    \A t \in Threads :
        LET c == call[t]
        IN  c.op = "i2c_read_regs" =>
              /\ pc[t] \in {"rr_check", "rr_prog", "rr_start"} => tasks[t] = << >>
              /\ pc[t] \in {"rr_start"} \cup Started =>
                    /\ regs[t].SHORTS = {"LASTTX_STARTRX", "LASTRX_STOP"}
                    /\ regs[t].ADDRESS = c.addr
                    /\ regs[t].RXD_MAXCNT = c.len
              /\ (pc[t] = "fin_wait" /\ busy[t]) => regs[t].INTEN = {"STOPPED", "ERROR"}
              /\ pc[t] \in Started \cup AfterWakeup =>
                    /\ tasks[t] = <<"STARTTX">>
                    /\ hw[t].by = c
                    /\ IsPrefix(hw[t].wire, ReadRegsWire(c))

\* a 16-bit register read of two bytes has gone over the wire completely,
\* stop included, while its caller waits
C12_Witness ==
    \E t \in Threads :
        /\ call[t].op = "i2c_read_regs" /\ pc[t] = "fin_wait"
        /\ call[t].flags = {"I2C_REG16"} /\ call[t].len = 2
        /\ hw[t].wire = ReadRegsWire(call[t])


\* a read that follows a write is woken only by an event of its own transaction
C13_ReadWokenByOwnEvent ==
    \A t \in Threads :
        (call[t].op = "i2c_read_bytes" /\ pc[t] \in AfterWakeup) =>
            hw[t].posted \cap {"STOPPED", "ERROR"} # {}

\* the start-receive task is triggered when the transaction of the write is over
C13_StartAfterWrite ==
    \A t \in Threads :
        (pc[t] = "rb_start" /\ Steps(t) /\ hw[t].by.op = "i2c_write_bytes") =>
            hw[t].st = "idle"

\* C13 (as claimed): when i2c_read_bytes follows i2c_write_bytes with the same
\* length and address, the start-receive task is triggered only when the
\* transaction of the write is over on the bus, and the read is woken only by
\* an event its own transaction posted.
C13_WriteThenRead == [][C13_StartAfterWrite]_vars /\ []C13_ReadWokenByOwnEvent


\* the call breaks the caller contract of its operation
ContractViolated(c) ==
    \/ c.dev \notin Buses
    \/ c.null
    \/ c.len = 0
    \/ c.len >= (IF c.op = "i2c_write_regs" THEN 253 ELSE 256)

\* C14 (as claimed): a call that breaks the caller contract ends at the failed
\* assertion and never gets past it: it is at the failed assertion without
\* having copied into tx_buf (which it does holding buffer_lock) or triggered
\* a task, or it is still before the copy and before the assertion of
\* direct_i2c_write_bytes; on the direct and on the staged path of
\* i2c_write_bytes alike.
C14_ViolationsAssert ==
    \A t \in Threads :
        LET c == call[t]
        IN  (c.op # "none" /\ ContractViolated(c)) =>
              \/ pc[t] = "assert_failed" /\ buffer_lock # t /\ tasks[t] = << >>
              \/ pc[t] = "dw_check" /\ ~Staged(c)
              \/ pc[t] \in {"wb_lock", "wb_stage"}


\* C15 (as claimed): a transfer call gets past the wait in finish only when
\* the hardware has posted stop, last-byte-transmitted or error after the
\* start task of this transfer; as long as it has posted none the caller
\* stays blocked, and a caller blocked in a staged write holds buffer_lock.
C15_BlockedUntilEvent ==
    \A t \in Threads :
        /\ pc[t] \in AfterWakeup =>
               hw[t].posted \cap {"STOPPED", "LASTTX", "ERROR"} # {}
        /\ (pc[t] = "fin_wait" /\ Staged(call[t])) => buffer_lock = t


\* the flag check of the operation of call c rejects it
Rejects(c) ==
    IF c.op = "i2c_write_regs" THEN WriteRegsRejects(c.flags)
    ELSE IF c.op = "i2c_read_bytes" THEN ReadBytesRejects(c.flags)
    ELSE IF c.op = "i2c_read_regs" THEN ReadRegsRejects(c.flags)
    ELSE DirectWriteRejects(c.flags)

\* the positions at which the registers are programmed / the start task is triggered
ProgPcs == {"dw_prog", "rb_prog", "rr_prog"}
StartPcs == {"dw_start", "rb_start", "rr_start"}

\* the address, pointer, count and shortcut registers of bus t hold what the
\* operation of the current call of t programs
Programmed(t) ==
    LET c == call[t]
        r == regs[t]
    IN  /\ r.ADDRESS = c.addr
        /\ c.op \in {"i2c_write_bytes", "i2c_write_regs"} =>
              /\ r.TXD_PTR = DirectPtr(c) /\ r.TXD_MAXCNT = DirectLen(c)
              /\ r.SHORTS = WriteShorts(c.flags)
        /\ c.op = "i2c_read_bytes" =>
              /\ r.RXD_PTR = "data" /\ r.RXD_MAXCNT = c.len
              /\ r.SHORTS = {"LASTRX_STOP"}
        /\ c.op = "i2c_read_regs" =>
              /\ r.TXD_PTR = "reg" /\ r.TXD_MAXCNT = RegAddrLen(c.flags)
              /\ r.RXD_PTR = "data" /\ r.RXD_MAXCNT = c.len
              /\ r.SHORTS = {"LASTTX_STARTRX", "LASTRX_STOP"}

\* the part of the order that does not concern the interrupt mask: flags are
\* validated before a register is programmed (in i2c_write_regs before the
\* buffer is staged), the start task is triggered once, with the registers
\* programmed and the staged bytes in place, and the caller waits after it
C16_ProgramThenStart(t) ==
    /\ pc[t] \in ProgPcs \cup {"wr_stage"} => ~Rejects(call[t])
    /\ pc[t] \in StartPcs =>
          /\ Programmed(t)
          /\ tasks[t] = << >> /\ Len(tasks'[t]) = 1
          /\ Staged(call[t]) =>
                /\ buffer_lock = t
                /\ \A i \in DOMAIN Supplied(call[t], t) :
                       tx_buf[i - 1] = Supplied(call[t], t)[i]
    /\ pc[t] \in Started => Len(tasks[t]) = 1

C17_StoppedClearedOnReturn ==
    \A t \in Threads :
        ( /\ pc[t] \in {"idle", "unlock"}
          /\ ret[t] \in {OK, ENXIO, EIO}
          /\ hw[t].by.op # "none" /\ IntenSuccess(hw[t].by) = "STOPPED" )
        => ~regs[t].EVENTS_STOPPED


\* a suppress-stop write leaves the poll of finish, or returns 0, only when
\* every byte of its own transaction is on the wire (or, for the poll, when
\* its transaction has posted the error event)
C18_PollStep ==
    \A t \in Threads :
        (Steps(t) /\ IntenSuccess(call[t]) = "LASTTX") =>
            /\ pc[t] = "fin_poll" =>
                  \/ Len(WireBytes(hw[t].wire)) = DirectLen(call[t])
                  \/ "ERROR" \in hw[t].posted
            /\ Returns(t, OK) => Len(WireBytes(hw[t].wire)) = DirectLen(call[t])

\* C18 (as claimed): in a write with I2C_NOSTOP finish goes on from its poll
\* only when the transmitted-byte count of the current transaction has reached
\* the requested count or the transaction has posted an error, and the call
\* returns 0 only with all its bytes on the wire, whatever writes came before.
C18_PollWaitsForCount == [][C18_PollStep]_vars


\* C19: in every reachable state the unmasked sources of a bus are among
\* stopped, last-byte-transmitted and error (last-byte-received is never one
\* of them); while the caller of the bus is blocked in finish on the locked
\* busy[dev] they are exactly the requested success source and error; and at
\* every other position, in particular when finish is about to arm the mask
\* for the next transaction, no source is unmasked.
C19_IntenSources ==
    \A d \in Buses :
        /\ regs[d].INTEN \subseteq {"STOPPED", "LASTTX", "ERROR"}
        /\ "LASTRX" \notin regs[d].INTEN
        /\ (pc[d] = "fin_wait" /\ busy[d]) =>
               regs[d].INTEN = {IntenSuccess(call[d]), "ERROR"}
        /\ ~(pc[d] = "fin_wait" /\ busy[d]) => regs[d].INTEN = {}

\* the second transfer of a thread, a write with I2C_NOSTOP, has armed the
\* last-byte-transmitted and the error source and nothing else
C19_Witness ==
    \E t \in Threads :
        /\ ncalls[t] = 2 /\ pc[t] = "fin_wait" /\ busy[t]
        /\ IntenSuccess(call[t]) = "LASTTX"
        /\ regs[t].EVENTS_STOPPED
        /\ regs[t].INTEN = {"LASTTX", "ERROR"}


\* busy[d] is unlocked only for a caller that has armed the mask and not yet
\* resumed, and with every source of the bus masked: the handler cannot run
\* again before finish arms the mask again
C20_UnlockedMeansMasked ==
    \A d \in Buses : ~busy[d] => (pc[d] = "fin_wait" /\ regs[d].INTEN = {})

\* a step that unlocks busy[d] is taken with an unmasked event of bus d
\* latched, leaves stopped, error and last-byte-transmitted of bus d masked,
\* and touches neither the signal nor the registers of another bus
C20_HandlerStep ==
    \A d \in Buses :
        (busy[d] /\ ~busy'[d]) =>
            /\ IrqPending(d)
            /\ regs'[d].INTEN \cap {"STOPPED", "ERROR", "LASTTX"} = {}
            /\ \A e \in Buses \ {d} : busy'[e] = busy[e] /\ regs'[e] = regs[e]

\* C20: i2c_isr_handler masks stopped, error and last-byte-transmitted of the
\* bus of its argument when it unlocks busy[dev] of that bus, and unlocks no
\* other signal; between one arming of the mask in finish and the next the
\* signal is unlocked at most once, because once it is unlocked no source of
\* the bus is unmasked, also when success and error are both posted.
C20_HandlerOncePerArming == []C20_UnlockedMeansMasked /\ [][C20_HandlerStep]_vars

\* the error event and then the stop event of one transaction have been
\* posted; the handler has run for the first, and with both events latched
\* and the caller not yet resumed nothing is unmasked
C20_Witness ==
    \E d \in Buses :
        /\ ~busy[d] /\ pc[d] = "fin_wait"
        /\ {"ERROR", "STOPPED"} \subseteq hw[d].posted
        /\ regs[d].EVENTS_ERROR /\ regs[d].EVENTS_STOPPED
        /\ ~IrqPending(d)


\* the latched event flags of bus d that are unmasked in the registers r
Raised(r) ==
    {e \in {"STOPPED", "ERROR", "LASTTX"} :
        /\ e \in r.INTEN
        /\ \/ e = "STOPPED" /\ r.EVENTS_STOPPED
           \/ e = "ERROR" /\ r.EVENTS_ERROR
           \/ e = "LASTTX" /\ r.EVENTS_LASTTX}

\* a step that unlocks busy[d] masks the sources of bus d and clears the event
\* flags that raised the interrupt
C21_HandlerStep ==
    \A d \in Buses :
        (busy[d] /\ ~busy'[d]) =>
            /\ regs'[d].INTEN = {}
            /\ Raised(regs[d]) # {}
            /\ \A e \in Raised(regs[d]) :
                  /\ e = "STOPPED" => ~regs'[d].EVENTS_STOPPED
                  /\ e = "ERROR" => ~regs'[d].EVENTS_ERROR
                  /\ e = "LASTTX" => ~regs'[d].EVENTS_LASTTX

\* C21 (as claimed): every run of the interrupt handler (the step that unlocks
\* busy[d]) leaves the sources of the bus masked, has cleared the event flags
\* that raised the interrupt, and leaves busy[d] unlocked.
C21_HandlerClearsStatus == [][C21_HandlerStep]_vars

SharedRegs(r) == <<r.PSEL_SCL, r.PSEL_SDA, r.FREQUENCY>>

InTransfer(c) == c.op \in Ops

C22_AcquireReturns(t) ==
    (pc[t] = "acq_enable" /\ pc'[t] = "idle") =>
        /\ SharedRegs(regs'[call[t].dev]) =
               <<i2c_config(call[t].dev).scl, i2c_config(call[t].dev).sda,
                 i2c_config(call[t].dev).speed>>
        /\ regs'[call[t].dev].ENABLE

C22_ReleaseReturns(t) ==
    (pc[t] = "rel_shared" /\ pc'[t] = "idle") => ~regs'[call[t].dev].ENABLE

C22_TransferStep(t) ==
    (pc'[t] # pc[t] /\ (InTransfer(call[t]) \/ InTransfer(call'[t]))) =>
        \A d \in Buses : SharedRegs(regs'[d]) = SharedRegs(regs[d])

\* C22: the step on which i2c_acquire returns leaves the pin-select and
\* frequency registers of its bus equal to the bus descriptor and the peripheral
\* enabled, whatever the SPI role wrote while the bus was released; the step on
\* which i2c_release returns leaves the peripheral disabled; no step of a
\* transfer call changes a pin-select or frequency register
C22_AcquireRestoresShared ==
    [][\A t \in Threads :
          C22_AcquireReturns(t) /\ C22_ReleaseReturns(t) /\ C22_TransferStep(t)]_vars

\* a transfer was made, the bus was released, the SPI role left its own pins
\* and speed in the shared registers, and i2c_acquire has taken the peripheral
\* back and is about to set it up
C22_Witness ==
    /\ pc[0] = "acq_setup"
    /\ ncalls[0] > 0
    /\ SharedRegs(regs[0]) = <<SpiConfig.sclk, SpiConfig.mosi, SpiConfig.speed>>
    /\ ~regs[0].ENABLE

\* the number of holders of bus d: the threads that have acquired it, and the detached
\* period of its pins
Holders(d) == Cardinality({t \in Threads : HoldsBus(t, d)}) + (IF pins[d] THEN 0 ELSE 1)

C23_OneHolder ==
    \A d \in Buses :
        /\ Holders(d) <= 1
        /\ ~pins[d] => ~regs[d].ENABLE

C23_CompletionStep ==
    \A t \in Threads :
        /\ (pc[t] = "dp_disable" /\ pc'[t] = "idle") =>
               \A u \in Threads : ~HoldsBus(u, call[t].dev)
        /\ (pc[t] = "acq_enable" /\ pc'[t] = "idle") => pins[call[t].dev]

\* C23: with MODULE_PERIPH_I2C_RECONFIGURE, at most one of these holds a bus:
\* a thread between its i2c_acquire and its i2c_release, or a detached-pins
\* period between i2c_deinit_pins and i2c_init_pins; the peripheral is never
\* enabled while the pins are detached; i2c_deinit_pins does not complete
\* while the bus is acquired, i2c_acquire does not complete while the pins are
\* detached
C23_GuardSerializes == []C23_OneHolder /\ [][C23_CompletionStep]_vars

\* the pins of bus 0 are detached by thread 1 and thread 0, which has written
\* on the bus before, waits in i2c_acquire for the guard
C23_Witness ==
    /\ ~pins[0]
    /\ pc[0] = "acq_lock"
    /\ ncalls[0] > 0

C24_PathStep(t) ==
    LET c == call[t]
        programs == pc[t] = "dw_prog" /\ pc'[t] = "dw_start"
    IN  (c.op = "i2c_write_bytes" /\ pc'[t] # pc[t]) =>
        /\ c.ram =>
              /\ buffer_lock' = buffer_lock /\ buffer_lock # t
              /\ tx_buf' = tx_buf
              /\ programs => regs'[t].TXD_PTR = "data"
        /\ ~c.ram =>
              /\ tx_buf' # tx_buf => buffer_lock = t
              /\ programs =>
                    /\ regs'[t].TXD_PTR = "tx_buf"
                    /\ buffer_lock = t
                    /\ \A i \in 0 .. (c.len - 1) : tx_buf[i] = UserData(t, i)
              /\ (buffer_lock = t /\ buffer_lock' # t) =>
                    pc[t] = "unlock" /\ ret[t] # NoRet
        /\ programs =>
              regs'[t].SHORTS = IF "I2C_NOSTOP" \in c.flags THEN {} ELSE {"LASTTX_STOP"}
        /\ (pc[t] = "fin_unmask" /\ pc'[t] = "fin_wait") =>
              regs'[t].INTEN = IF "I2C_NOSTOP" \in c.flags
                               THEN {"LASTTX", "ERROR"} ELSE {"STOPPED", "ERROR"}

\* C24: a step of i2c_write_bytes with data in RAM never changes buffer_lock
\* or tx_buf and programs TXD.PTR with data; with data outside RAM tx_buf is
\* written only under buffer_lock, TXD.PTR is programmed with tx_buf holding
\* the len bytes of data while buffer_lock is held, and buffer_lock is released
\* only after direct_i2c_write_bytes has returned; on both paths SHORTS is
\* LASTTX_STOP and finish arms STOPPED without I2C_NOSTOP, SHORTS is empty and
\* finish arms LASTTX with it
C24_WriteBytesPath == [][\A t \in Threads : C24_PathStep(t)]_vars

\* a write from RAM with I2C_NOSTOP is waiting for last-byte-transmitted after
\* a staged write without it has left its bytes in tx_buf
C24_Witness ==
    /\ ncalls[0] = 2 /\ pc[0] = "fin_wait"
    /\ call[0].op = "i2c_write_bytes" /\ call[0].ram /\ "I2C_NOSTOP" \in call[0].flags
    /\ regs[0].TXD_PTR = "data" /\ regs[0].SHORTS = {}
    /\ tx_buf[0] = UserData(0, 0) /\ buffer_lock = FREE

InInit(d) == pc[d] \in {"init_disable", "init_pins", "init_setup", "init_enable"}

C25_ReturnStep ==
    \A t \in Threads :
        /\ (pc[t] = "init_enable" /\ pc'[t] = "idle") => busy'[t] /\ regs'[t].ENABLE
        /\ (InTransfer(call[t]) /\ pc[t] # "idle" /\ pc'[t] = "idle") =>
               busy'[t] /\ ret'[t] \in {OK, ENXIO, EIO, EOPNOTSUPP}
        /\ (busy[t] /\ ~busy'[t]) => pc[t] = "fin_wait"
        /\ (~busy[t] /\ busy'[t] /\ ~InInit(t) /\ pc[t] # "boot") =>
               pc[t] = "fin_wait" /\ pc'[t] # "fin_wait"

C25_State ==
    \A t \in Threads :
        /\ (pc[t] \in {"init_pins", "init_setup", "init_enable"}) => ~regs[t].ENABLE
        /\ (pc[t] \notin {"boot", "fin_wait"}) => busy[t]

\* C25: busy[dev] is locked when i2c_init returns and when any transfer call
\* returns (0, -ENXIO, -EIO or -EOPNOTSUPP); it is unlocked only while the
\* caller is at the wait of finish, by one handler run that the wait then
\* consumes, so every later wait is entered with busy[dev] locked; i2c_init
\* returns with the peripheral enabled and keeps it disabled while the pins
\* and the shared registers are configured
C25_BusyLockedOnReturn == []C25_State /\ [][C25_ReturnStep]_vars

\* after i2c_init the second transfer has returned an error and busy[0] is
\* locked again, the peripheral is enabled
C25_Witness ==
    /\ ncalls[0] = 2 /\ pc[0] = "idle"
    /\ ret[0] \in {ENXIO, EIO}
    /\ busy[0] /\ regs[0].ENABLE

WriteInProgress(t) == pc[t] # "idle" /\ call[t].op \in {"i2c_write_regs", "i2c_write_bytes"}

C26_Step ==
    \A t \in Threads :
        /\ (InTransfer(call[t]) /\ pc[t] # "idle" /\ pc'[t] = "idle") => buffer_lock' # t
        /\ (pc'[t] # pc[t] /\ InTransfer(call[t]) /\ ~Staged(call[t])) =>
               buffer_lock' = buffer_lock /\ buffer_lock # t

C26_State ==
    /\ (\A t \in Threads : ~WriteInProgress(t)) => buffer_lock = FREE
    /\ \A t \in Threads : buffer_lock = t => Staged(call[t]) /\ pc[t] # "idle"

\* C26: on the step on which a transfer call returns, whatever the result, the
\* caller does not hold buffer_lock; no step of a read or of a write from RAM
\* changes buffer_lock; and buffer_lock is free in every state in which no
\* write call is in progress
C26_BufferLockReleased == []C26_State /\ [][C26_Step]_vars

\* the only call so far, a staged i2c_write_bytes with a flag the driver does
\* not support, has copied into tx_buf, was rejected and has returned;
\* buffer_lock is free
C26_Witness ==
    /\ ncalls[0] = 1 /\ pc[0] = "idle"
    /\ ret[0] = EOPNOTSUPP
    /\ tx_buf[0] = UserData(0, 0)
    /\ buffer_lock = FREE

\* C27: with a fair scheduler, an engine that carries every started
\* transaction on to its event and interrupts that are delivered, every
\* transfer call of every thread returns
C27_EveryCallReturns ==
    \A t \in Threads : (InTransfer(call[t]) /\ pc[t] # "idle") ~> (pc[t] = "idle")

\* the first transaction of thread 0 has posted its error event before finish
\* has unmasked the interrupt sources; thread 0 holds buffer_lock and thread 1
\* waits for it
C27_Witness ==
    /\ ncalls[0] = 1 /\ pc[0] = "fin_unmask" /\ regs[0].EVENTS_ERROR
    /\ regs[0].INTEN = {}
    /\ buffer_lock = 0
    /\ pc[1] = "wr_lock"

\* the positions of i2c_write_regs after its assert has passed
PastAssert(t) == call[t].op = "i2c_write_regs" /\ pc[t] \notin {"idle", "assert_failed"}

C28_State ==
    \A t \in Threads :
        LET c == call[t]
            n == RegAddrLen(c.flags) + c.len
        IN  /\ PastAssert(t) =>
                  /\ n <= 254
                  /\ 0 .. (n - 1) \subseteq DOMAIN tx_buf
                  /\ 0 < DirectLen(c) /\ DirectLen(c) < 256
            /\ (c.op = "i2c_write_regs" /\ 0 < c.len /\ c.len < 253) =>
                  pc[t] # "assert_failed"

C28_Step ==
    \A t \in Threads :
        LET c == call[t]
            n == RegAddrLen(c.flags) + c.len
        IN  /\ (PastAssert(t) /\ pc[t] = "wr_stage" /\ pc'[t] # pc[t]) =>
                  /\ \A i \in 0 .. (c.len - 1) :
                        tx_buf'[RegAddrLen(c.flags) + i] = UserData(t, i)
                  /\ \A i \in DOMAIN tx_buf : i >= n => tx_buf'[i] = tx_buf[i]
            /\ (PastAssert(t) /\ pc[t] = "dw_prog" /\ pc'[t] # pc[t]) =>
                  regs'[t].TXD_MAXCNT = n

\* C28: every i2c_write_regs call with 0 < len < 253 passes both assertions;
\* for every call that is past the assertion of i2c_write_regs, with or
\* without I2C_REG16, selector length + len is at most 254, every staged index
\* lies inside tx_buf, the length handed to direct_i2c_write_bytes is above 0
\* and below 256, the copy writes exactly the indices below selector length +
\* len, and TXD.MAXCNT is programmed with selector length + len
C28_StagingInBounds == []C28_State /\ [][C28_Step]_vars

\* a register write of 252 bytes with a 16-bit selector has filled tx_buf up
\* to index 253 and programmed a count of 254
C28_Witness ==
    /\ pc[0] = "fin_wait"
    /\ call[0].op = "i2c_write_regs" /\ call[0].len = 252 /\ "I2C_REG16" \in call[0].flags
    /\ regs[0].TXD_MAXCNT = 254
    /\ tx_buf[253] = UserData(0, 251)
====
